---- MODULE Spec2Model ----
(***************************************************************************)
(* Regularity diff engine of docs/app.js (conjugateur-fr).                 *)
(*                                                                         *)
(* A JavaScript string is modelled as a sequence of one-character strings  *)
(* (one UTF-16 code unit each; every character used here is in the BMP).   *)
(* JavaScript indices are 0-based, the sequences 1-based: the cell         *)
(* dp[i][j] of the code is Cell(t, i, j), mask[j - 1] is mask[j].          *)
(***************************************************************************)
EXTENDS Integers, Sequences, FiniteSets, TLC

VARIABLES
    pc,                \* position of the call under study
    actual,            \* editMask / bestExpectedMask: the attested form
    expected,          \* editMask: the expected spelling
    em,                \* editMask: its result and the loop's final position
    expectedVariants,  \* bestExpectedMask: the list of expected spellings
    best,              \* bestExpectedMask: its result (irregularMask)
    sharedPrefix,      \* colorizeForm: the shared prefix of the tense
    stem,              \* colorizeForm: the linguistic stem
    colored,           \* colorizeForm: the mode of every character
    inf,               \* the infinitive v.w of the verb
    tenseKey,          \* present, imparfait, passe_simple or futur
    personIndex,       \* 0..5
    stems,             \* the auxiliary stems: [imparfaitStem]
    v,                 \* buildRow: the verb entry [w, t, part]
    cellKey,           \* the cell built: part, pr, imp, ps or fut
    cell,              \* the cell built: [rendered, shared, rows]
    unionForms,        \* applyBlackUnionRules: the list of forms
    unionShared,       \* applyBlackUnionRules: its result
    entries,           \* main: the infinitives of entries, in load order
    rows,              \* main: data-word of the rows shown, in table order
    didInitialSeed,    \* main: the flag of seedInitialRows
    tries,             \* maybeAddRandomRow: the loop counter i
    stemMarks,         \* markStemLetters: its result (isBlack)
    qValue,            \* main: q.value, the text of the search box
    limitArg,          \* computeSuggestions: the argument limit
    suggestions,       \* computeSuggestions: its result
    currentSuggestions,\* main: the suggestions shown under the search box
    selectedIndex,     \* main: the suggestion Enter picks, or -1
    picked,            \* addRowToTop, addRowToBottom: the argument word
    calls,             \* the calls of addRowToTop and addRowToBottom made
    floatingState,     \* main: what setFloating was last asked for
    floatingLocked,    \* main: set by the back-to-top button
    floatingOffTimer,  \* main: the id setTimeout returned, or 0 for null
    classList,         \* the classes floating and show of the search bar
    frames,            \* callbacks of requestAnimationFrame not yet run
    timers,            \* ids of the 240 ms timers not yet fired
    lastTimer,         \* the last id setTimeout returned
    chunks,            \* manifest.chunks: the verbs each file holds
    chunkIndex,        \* loadAllChunks: the loop variable
    verbs,             \* loadAllChunks: the words of chunkData.verbs
    loadedCount,       \* main: the counter of addEntry
    statusText,        \* status.textContent: its kind and its count
    attempted          \* the indices loadChunk was called with, in order

cellVars == <<inf, tenseKey, personIndex, stems>>

rowVars == <<v, cellKey, cell>>

unionVars == <<unionForms, unionShared>>

uiVars == <<entries, rows, didInitialSeed, tries>>

markVars == <<stemMarks>>

searchVars ==
    <<qValue, limitArg, suggestions, currentSuggestions, selectedIndex,
      picked, calls>>

floatVars ==
    <<floatingState, floatingLocked, floatingOffTimer, classList, frames,
      timers, lastTimer>>

loadVars ==
    <<chunks, chunkIndex, verbs, loadedCount, statusText, attempted>>

pageVars == <<searchVars, floatVars, loadVars>>

vars == <<pc, actual, expected, em, expectedVariants, best,
          sharedPrefix, stem, colored, cellVars, rowVars, unionVars, uiVars,
          markVars, pageVars>>

-----------------------------------------------------------------------------
(* Bounds of the model. *)

MaxLen == 3            \* longest string drawn as an input of editMask
MaxVariants == 2       \* longest variant list drawn for bestExpectedMask
MaxBestLen == 2        \* longest string drawn for bestExpectedMask
MaxFormLen == 3        \* longest form drawn for colorizeForm
MaxStemLen == 2        \* longest stem and shared prefix for colorizeForm
MaxInfStem == 2        \* longest stem of a synthetic infinitive
MaxForms == 6          \* most forms a verb entry gives for one tense
MaxUnionForms == 2     \* longest list drawn for applyBlackUnionRules
MaxUnionLen == 2       \* longest form drawn for applyBlackUnionRules
MaxSpellStem == 2      \* longest head of an infinitive of a spelling rule
MaxEntries == 8        \* most verbs loaded when seedInitialRows is called
MaxSuggestEntries == 3 \* most entries computeSuggestions is called with
MaxLimit == 3          \* largest limit computeSuggestions is called with
MaxCalls == 3          \* most calls of addRowToTop and addRowToBottom in a run
MaxFrames == 3         \* most callbacks of requestAnimationFrame pending
MaxTimers == 5         \* most timers setFloating starts in a run
MaxChunks == 2         \* most chunks of a manifest

\* letters the inputs of editMask are drawn from
EditAlphabet == {"a", "b", "c"}

\* letters the inputs of bestExpectedMask are drawn from
BestAlphabet == {"a", "b"}

\* letters the forms, the stems and the shared prefixes of colorizeForm are
\* drawn from: both cases of one letter in the forms, and an upper-case
\* letter in the stems and in the prefixes
ColorAlphabet == {"a", "A", "b"}
StemAlphabet == {"a", "B"}
PrefixAlphabet == {"A", "b"}

\* letters the stems of markStemLetters are drawn from: one the forms have
\* in both cases, an upper-case one, and one no form has
MarkAlphabet == {"a", "B", "c"}

\* letters the forms of applyBlackUnionRules are drawn from: both cases of
\* one letter, and another letter
UnionAlphabet == {"a", "A", "b"}

StringsOver(A, n) == UNION {[1..k -> A] : k \in 0..n}

ListsOver(S, n) == UNION {[1..k -> S] : k \in 0..n}

-----------------------------------------------------------------------------
(* String.prototype methods on the letters of the model. *)

UpperToLower ==
    [c \in {"A", "B", "C", "E", "G", "L", "P", "R", "T", "Y"} |->
        CASE c = "A" -> "a" [] c = "B" -> "b" [] c = "C" -> "c"
          [] c = "E" -> "e" [] c = "G" -> "g" [] c = "L" -> "l"
          [] c = "P" -> "p" [] c = "R" -> "r" [] c = "T" -> "t"
          [] c = "Y" -> "y"]

toLowerCaseChar(c) == IF c \in DOMAIN UpperToLower THEN UpperToLower[c] ELSE c

toLowerCase(s) == [k \in 1..Len(s) |-> toLowerCaseChar(s[k])]

\* s.indexOf(ch, from): 0-based index of the first ch at or after from, or -1
indexOf(s, ch, from) ==
    LET hits == {k \in 0..(Len(s) - 1) : k >= from /\ s[k + 1] = ch}
    IN  IF hits = {} THEN -1
        ELSE CHOOSE k \in hits : \A h \in hits : k <= h

-----------------------------------------------------------------------------
(* Stem marking and classification, app.js 61-82 and 306-338. *)

\* MarkLoop searching from lastIdx instead of lastIdx + 1
RECURSIVE MarkLoop_sameIndex(_, _, _, _, _)
MarkLoop_sameIndex(lower, stemLower, k, lastIdx, isBlack) ==
    IF k > Len(stemLower) THEN isBlack
    ELSE LET idx == indexOf(lower, stemLower[k], lastIdx) IN
         IF idx = -1 THEN isBlack
         ELSE MarkLoop_sameIndex(lower, stemLower, k + 1, idx,
                                 [isBlack EXCEPT ![idx + 1] = TRUE])

\* MarkLoop going on to the next stem letter where line 67 breaks
RECURSIVE MarkLoop_skipMissing(_, _, _, _, _)
MarkLoop_skipMissing(lower, stemLower, k, lastIdx, marked) ==
    IF k > Len(stemLower) THEN marked
    ELSE LET idx == indexOf(lower, stemLower[k], lastIdx + 1) IN
         IF idx = -1
         THEN MarkLoop_skipMissing(lower, stemLower, k + 1, lastIdx, marked)
         ELSE MarkLoop_skipMissing(lower, stemLower, k + 1, idx,
                                   [marked EXCEPT ![idx + 1] = TRUE])

\* the loop 65-70 from the k-th letter of the lowered stem on
RECURSIVE MarkLoop(_, _, _, _, _)
MarkLoop(lower, stemLower, k, lastIdx, isBlack) ==
    IF k > Len(stemLower) THEN isBlack
    ELSE LET idx == indexOf(lower, stemLower[k], lastIdx + 1) IN
         IF idx = -1 THEN isBlack
         ELSE MarkLoop(lower, stemLower, k + 1, idx,
                       [isBlack EXCEPT ![idx + 1] = TRUE])

markStemLetters(form, st) ==
    MarkLoop(toLowerCase(form), toLowerCase(st), 1, -1,
             [k \in 1..Len(form) |-> FALSE])

\* the loop 75-81 from index i (0-based) on
RECURSIVE MergeLoop(_, _, _, _)
MergeLoop(isBlack, form, prefix, i) ==
    IF ~(i < Len(prefix)) THEN isBlack
    ELSE IF i < Len(form)
            /\ toLowerCaseChar(form[i + 1]) = toLowerCaseChar(prefix[i + 1])
         THEN MergeLoop([isBlack EXCEPT ![i + 1] = TRUE], form, prefix, i + 1)
         ELSE isBlack

mergeSharedPrefix(isBlack, form, prefix) == MergeLoop(isBlack, form, prefix, 0)

\* MaskFlag taking an absent mask for a flagged character
MaskFlag_nullHi(irregularMask, i) ==
    irregularMask.null \/ (i + 1 \in DOMAIN irregularMask.mask
                              /\ irregularMask.mask[i + 1])

\* Boolean(irregularMask && irregularMask[i]), line 325; i is 0-based
MaskFlag(irregularMask, i) ==
    /\ ~irregularMask.null
    /\ i + 1 \in DOMAIN irregularMask.mask
    /\ irregularMask.mask[i + 1]

\* NextMode with the deviation mask tested before isBlack
NextMode_maskFirst(isBlack, irregularMask, i) ==
    IF MaskFlag(irregularMask, i) THEN "hi"
    ELSE IF isBlack[i + 1] THEN "black"
    ELSE "normal"

\* nextMode of lines 323-327 for the character at index i (0-based)
NextMode(isBlack, irregularMask, i) ==
    IF isBlack[i + 1] THEN "black"
    ELSE IF MaskFlag(irregularMask, i) THEN "hi"
    ELSE "normal"

\* colorizeForm: the mode the loop 322-334 gives every character.  The
\* returned HTML wraps each maximal run of one mode in one span whose class
\* is c-black, classes.hi or classes.normal; only the modes are kept here.
colorizeForm(form, prefix, st, irregularMask) ==
    LET isBlack == mergeSharedPrefix(markStemLetters(form, st), form, prefix)
    IN  [k \in 1..Len(form) |-> NextMode(isBlack, irregularMask, k - 1)]

-----------------------------------------------------------------------------
(* editMask, app.js 84-145. *)

\* dp and bt are (m+1) x (n+1) tables; a table is a sequence of rows, a row
\* a sequence of cells [dp, bt].  bt is "null" where the code leaves null.
Cell(t, i, j) == t[i + 1][j + 1]

\* FirstRow without the bt[0][j] = "ins" of line 98
FirstRow_btUnset(n) ==
    [c \in 1..(n + 1) |-> [dp |-> c - 1, bt |-> "null"]]

\* lines 96-99 (and the fill(0)/fill(null) of 89-90 for column 0)
FirstRow(n) ==
    [c \in 1..(n + 1) |->
        IF c = 1 THEN [dp |-> 0, bt |-> "null"]
                 ELSE [dp |-> c - 1, bt |-> "ins"]]

\* FillCell without the insertion candidate of lines 109-112
FillCell_noIns(a, b, i, j, up, left, diag) ==
    LET cost == IF b[i] = a[j] THEN 0 ELSE 1
        del  == up + 1
        rep  == diag + cost
    IN  IF del < rep THEN [dp |-> del, bt |-> "del"]
        ELSE [dp |-> rep, bt |-> IF cost = 0 THEN "eq" ELSE "rep"]

\* FillCell recording "rep" also for an equal character (line 108)
FillCell_eqAsRep(a, b, i, j, up, left, diag) ==
    LET cost == IF b[i] = a[j] THEN 0 ELSE 1
        del  == up + 1
        ins  == left + 1
        rep  == diag + cost
        best1 == IF ins < rep THEN ins ELSE rep
        op1   == IF ins < rep THEN "ins" ELSE "rep"
    IN  IF del < best1 THEN [dp |-> del, bt |-> "del"]
        ELSE [dp |-> best1, bt |-> op1]

\* FillCell preferring deletion, then insertion, on equal costs
FillCell_delFirst(a, b, i, j, up, left, diag) ==
    LET cost == IF b[i] = a[j] THEN 0 ELSE 1
        del  == up + 1
        ins  == left + 1
        rep  == diag + cost
    IN  IF del <= ins /\ del <= rep THEN [dp |-> del, bt |-> "del"]
        ELSE IF ins <= rep THEN [dp |-> ins, bt |-> "ins"]
        ELSE [dp |-> rep, bt |-> IF cost = 0 THEN "eq" ELSE "rep"]

\* lines 103-118: one cell from its three neighbours
FillCell(a, b, i, j, up, left, diag) ==
    LET cost == IF b[i] = a[j] THEN 0 ELSE 1
        del  == up + 1
        ins  == left + 1
        rep  == diag + cost
        best0 == rep
        op0   == IF cost = 0 THEN "eq" ELSE "rep"
        best1 == IF ins < best0 THEN ins ELSE best0
        op1   == IF ins < best0 THEN "ins" ELSE op0
        best2 == IF del < best1 THEN del ELSE best1
        op2   == IF del < best1 THEN "del" ELSE op1
    IN  [dp |-> best2, bt |-> op2]

\* lines 92-95 and the inner loop 102-119 for row i, columns j..n
RECURSIVE FillRow(_, _, _, _, _, _)
FillRow(a, b, i, prev, cur, j) ==
    IF j > Len(a) THEN cur
    ELSE FillRow(a, b, i, prev,
                 Append(cur, FillCell(a, b, i, j,
                                      prev[j + 1].dp, cur[j].dp, prev[j].dp)),
                 j + 1)

\* the outer loop 101-120, rows i..m
RECURSIVE FillTable(_, _, _, _)
FillTable(a, b, t, i) ==
    IF i > Len(b) THEN t
    ELSE FillTable(a, b,
                   Append(t, FillRow(a, b, i, t[i],
                                     <<[dp |-> i, bt |-> "del"]>>, 1)),
                   i + 1)

dpTable(a, b) == FillTable(a, b, <<FirstRow(Len(a))>>, 1)

\* bt[i][j] as JavaScript reads it: undefined outside the table
btAt(t, i, j) ==
    IF i \in 0..(Len(t) - 1) /\ j \in 0..(Len(t[1]) - 1)
    THEN Cell(t, i, j).bt ELSE "null"

\* mask[j - 1] = true: an index outside 0..n-1 leaves the n entries alone
\* (JavaScript adds a property) and is recorded in oob
MarkMask(st, j) ==
    IF j \in 1..Len(st.mask)
    THEN [st EXCEPT !.mask = [st.mask EXCEPT ![j] = TRUE]]
    ELSE [st EXCEPT !.oob = TRUE]

\* Backtrace whose insertion step moves on without line 135
RECURSIVE Backtrace_insUnmarked(_, _)
Backtrace_insUnmarked(t, st) ==
    IF ~(st.i > 0 \/ st.j > 0) THEN st
    ELSE LET op == btAt(t, st.i, st.j) IN
         IF op = "eq" THEN
             Backtrace_insUnmarked(t, [st EXCEPT !.i = st.i - 1,
                                                 !.j = st.j - 1])
         ELSE IF op = "rep" THEN
             Backtrace_insUnmarked(t, [MarkMask(st, st.j)
                                          EXCEPT !.i = st.i - 1,
                                                 !.j = st.j - 1])
         ELSE IF op = "ins" THEN
             Backtrace_insUnmarked(t, [st EXCEPT !.j = st.j - 1])
         ELSE IF op = "del" THEN
             Backtrace_insUnmarked(t, [st EXCEPT !.i = st.i - 1])
         ELSE st

\* the backtrace loop 125-142; st = [mask, i, j, oob]
RECURSIVE Backtrace(_, _)
Backtrace(t, st) ==
    IF ~(st.i > 0 \/ st.j > 0) THEN st
    ELSE LET op == btAt(t, st.i, st.j) IN
         IF op = "eq" THEN
             Backtrace(t, [st EXCEPT !.i = st.i - 1, !.j = st.j - 1])
         ELSE IF op = "rep" THEN
             Backtrace(t, [MarkMask(st, st.j) EXCEPT !.i = st.i - 1,
                                                     !.j = st.j - 1])
         ELSE IF op = "ins" THEN
             Backtrace(t, [MarkMask(st, st.j) EXCEPT !.j = st.j - 1])
         ELSE IF op = "del" THEN
             Backtrace(t, [st EXCEPT !.i = st.i - 1])
         ELSE st

\* the cells the loop 125-142 visits from (i, j) on, each with the
\* operation recorded there, in the order of the visits
RECURSIVE BacktracePath(_, _, _)
BacktracePath(t, i, j) ==
    IF ~(i > 0 \/ j > 0) THEN <<>>
    ELSE LET op == btAt(t, i, j)
             here == <<[op |-> op, i |-> i, j |-> j]>>
         IN  IF op \in {"eq", "rep"} THEN here \o BacktracePath(t, i - 1, j - 1)
             ELSE IF op = "ins" THEN here \o BacktracePath(t, i, j - 1)
             ELSE IF op = "del" THEN here \o BacktracePath(t, i - 1, j)
             ELSE here

\* editMask(actual, expected): score and mask as returned, and i, j, oob
\* describing where the backtrace loop stopped
editMask(a, b) ==
    LET t  == dpTable(a, b)
        st == Backtrace(t, [mask |-> [k \in 1..Len(a) |-> FALSE],
                            i |-> Len(b), j |-> Len(a), oob |-> FALSE])
    IN  [score |-> Cell(t, Len(b), Len(a)).dp,
         mask |-> st.mask, i |-> st.i, j |-> st.j, oob |-> st.oob]

NoEditMask == [score |-> 0, mask |-> <<>>, i |-> 0, j |-> 0, oob |-> FALSE]

-----------------------------------------------------------------------------
(* bestExpectedMask, app.js 291-304. *)

\* the result: null, or the mask kept; scanned counts the variants the loop
\* has called editMask on, bestScore = -1 stands for Infinity
NoBest == [null |-> TRUE, mask |-> <<>>, bestScore |-> -1, scanned |-> 0]

\* BestLoop with <= for the < of line 297: the last minimum wins
RECURSIVE BestLoop_lastWins(_, _, _, _)
BestLoop_lastWins(a, variants, k, acc) ==
    IF k > Len(variants) THEN acc
    ELSE LET r == editMask(a, variants[k]) IN
         IF acc.bestScore = -1 \/ r.score <= acc.bestScore
         THEN LET acc2 == [null |-> FALSE, mask |-> r.mask,
                           bestScore |-> r.score, scanned |-> k]
              IN  IF r.score = 0 THEN acc2
                  ELSE BestLoop_lastWins(a, variants, k + 1, acc2)
         ELSE BestLoop_lastWins(a, variants, k + 1,
                                [acc EXCEPT !.scanned = k])

\* BestLoop without the bestScore = score of line 298
RECURSIVE BestLoop_noScoreUpdate(_, _, _, _)
BestLoop_noScoreUpdate(a, variants, k, acc) ==
    IF k > Len(variants) THEN acc
    ELSE LET r == editMask(a, variants[k])
         IN  BestLoop_noScoreUpdate(a, variants, k + 1,
                 [null |-> FALSE, mask |-> r.mask,
                  bestScore |-> -1, scanned |-> k])

\* lines 295-302 from variant k on; acc = [null, mask, bestScore, scanned]
RECURSIVE BestLoop(_, _, _, _)
BestLoop(a, variants, k, acc) ==
    IF k > Len(variants) THEN acc
    ELSE LET r == editMask(a, variants[k]) IN
         IF acc.bestScore = -1 \/ r.score < acc.bestScore
         THEN LET acc2 == [null |-> FALSE, mask |-> r.mask,
                           bestScore |-> r.score, scanned |-> k]
              IN  IF r.score = 0 THEN acc2
                  ELSE BestLoop(a, variants, k + 1, acc2)
         ELSE BestLoop(a, variants, k + 1, [acc EXCEPT !.scanned = k])

bestExpectedMask(a, variants) ==
    IF Len(variants) = 0 THEN NoBest
    ELSE BestLoop(a, variants, 1, NoBest)

-----------------------------------------------------------------------------
(* Rule tables and the variant generator, app.js 32-44 and 147-289. *)

endsWith(s, suffix) ==
    /\ Len(suffix) <= Len(s)
    /\ SubSeq(s, Len(s) - Len(suffix) + 1, Len(s)) = suffix

\* s.slice(0, -k)
DropLast(s, k) == SubSeq(s, 1, Len(s) - k)

\* s.lastIndexOf(ch): 0-based index of the last ch, or -1
lastIndexOf(s, ch) ==
    LET hits == {k \in 0..(Len(s) - 1) : s[k + 1] = ch}
    IN  IF hits = {} THEN -1
        ELSE CHOOSE k \in hits : \A h \in hits : h <= k

\* s.slice(0, idx) + by + s.slice(idx + 1), idx 0-based
ReplaceAt(s, idx, by) ==
    SubSeq(s, 1, idx) \o by \o SubSeq(s, idx + 2, Len(s))

RECURSIVE Flatten(_)
Flatten(lists) ==
    IF lists = <<>> THEN <<>> ELSE Head(lists) \o Flatten(Tail(lists))

\* [...new Set(list)]: the first occurrence of every element, in order
RECURSIVE Dedup(_)
Dedup(list) ==
    IF list = <<>> THEN <<>>
    ELSE LET init == Dedup(DropLast(list, 1))
             last == list[Len(list)]
         IN  IF \E k \in DOMAIN init : init[k] = last THEN init
             ELSE Append(init, last)

\* list.filter(Boolean) on strings: the non-empty ones
RECURSIVE FilterNonEmpty(_)
FilterNonEmpty(list) ==
    IF list = <<>> THEN <<>>
    ELSE IF Head(list) = <<>> THEN FilterNonEmpty(Tail(list))
    ELSE <<Head(list)>> \o FilterNonEmpty(Tail(list))

ER == <<"e", "r">>
IR == <<"i", "r">>
RE == <<"r", "e">>

verbGroup(w) ==
    IF endsWith(w, ER) THEN "er"
    ELSE IF endsWith(w, IR) THEN "ir"
    ELSE IF endsWith(w, RE) THEN "re"
    ELSE "other"

linguisticStem(w) ==
    IF endsWith(w, ER) \/ endsWith(w, IR) \/ endsWith(w, RE)
    THEN DropLast(w, 2) ELSE w

\* the lookahead (?=[aâo]): the letter at 1-based k is followed by a, â or o
BeforeAO(form, k) ==
    k + 1 <= Len(form) /\ form[k + 1] \in {"a", "â", "o"}

\* form.replace(/<letter>(?=[aâo])/g, by)
ReplaceBeforeAO(form, letter, by) ==
    Flatten([k \in 1..Len(form) |->
                IF form[k] = letter /\ BeforeAO(form, k) THEN by
                ELSE <<form[k]>>])

\* cerGerVariants without the branch of lines 154-156 for -ger
cerGerVariants_cerOnly(form, w, ending) ==
    LET lower == toLowerCase(w)
        first == IF ending # <<>> THEN ending[1] ELSE ""
        v1 == IF endsWith(lower, <<"c", "e", "r">>)
                 /\ first \in {"a", "â", "o"}
              THEN <<ReplaceBeforeAO(form, "c", <<"ç">>)>> ELSE <<>>
    IN  Dedup(<<form>> \o v1)

cerGerVariants(form, w, ending) ==
    LET lower == toLowerCase(w)
        first == IF ending # <<>> THEN ending[1] ELSE ""
        v1 == IF endsWith(lower, <<"c", "e", "r">>) /\ first \in {"a", "â", "o"}
              THEN <<ReplaceBeforeAO(form, "c", <<"ç">>)>> ELSE <<>>
        v2 == IF endsWith(lower, <<"g", "e", "r">>) /\ first \in {"a", "â", "o"}
              THEN <<ReplaceBeforeAO(form, "g", <<"g", "e">>)>> ELSE <<>>
    IN  Dedup(<<form>> \o v1 \o v2)

yToIVariants(st, optional) ==
    LET idx == lastIndexOf(st, "y") IN
    IF idx = -1 THEN <<st>>
    ELSE LET changed == ReplaceAt(st, idx, <<"i">>)
         IN  IF optional THEN <<st, changed>> ELSE <<changed>>

silentE == {0, 1, 2, 5}

yerStemVariants(st, w, tk, personIdx) ==
    IF tk # "present" THEN <<st>>
    ELSE IF personIdx \notin silentE THEN <<st>>
    ELSE LET lower == toLowerCase(w) IN
         IF endsWith(lower, <<"o", "y", "e", "r">>) \/ endsWith(lower, <<"u", "y", "e", "r">>)
         THEN yToIVariants(st, FALSE)
         ELSE IF endsWith(lower, <<"a", "y", "e", "r">>) THEN yToIVariants(st, TRUE)
         ELSE <<st>>

eToEGrave(st) ==
    LET idx == lastIndexOf(st, "e") IN
    IF idx = -1 THEN st ELSE ReplaceAt(st, idx, <<"è">>)

eAcuteToEGrave(st) ==
    LET idx == lastIndexOf(st, "é") IN
    IF idx = -1 THEN st ELSE ReplaceAt(st, idx, <<"è">>)

\* /<letter>[^aeiouy]*er$/.test(lower)
MatchesBeforeEr(lower, letter) ==
    /\ endsWith(lower, ER)
    /\ \E p \in 1..(Len(lower) - 2) :
          /\ lower[p] = letter
          /\ \A h \in (p + 1)..(Len(lower) - 2) :
                lower[h] \notin {"a", "e", "i", "o", "u", "y"}

eerStemVariants(st, w, tk, personIdx) ==
    IF tk # "present" THEN <<st>>
    ELSE IF personIdx \notin silentE THEN <<st>>
    ELSE LET lower == toLowerCase(w) IN
         IF MatchesBeforeEr(lower, "é")
         THEN Dedup(<<st, eAcuteToEGrave(st)>>)
         ELSE IF MatchesBeforeEr(lower, "e")
         THEN Dedup(<<st, eToEGrave(st)>>)
         ELSE <<st>>

\* elerEterStemVariants with the accent strategy only, lines 210-217 left
\* out
elerEterStemVariants_accentOnly(st, w, tk, personIdx) ==
    IF tk # "present" THEN <<st>>
    ELSE IF personIdx \notin silentE THEN <<st>>
    ELSE LET lower == toLowerCase(w)
             eler == endsWith(lower, <<"e", "l", "e", "r">>)
             eter == endsWith(lower, <<"e", "t", "e", "r">>)
         IN
         IF ~(eler \/ eter) THEN <<st>>
         ELSE Dedup(<<st, eToEGrave(st)>>)

elerEterStemVariants(st, w, tk, personIdx) ==
    IF tk # "present" THEN <<st>>
    ELSE IF personIdx \notin silentE THEN <<st>>
    ELSE LET lower == toLowerCase(w)
             eler == endsWith(lower, <<"e", "l", "e", "r">>)
             eter == endsWith(lower, <<"e", "t", "e", "r">>)
         IN
         IF ~(eler \/ eter) THEN <<st>>
         ELSE LET dl == DropLast(st, 1) \o <<"l", "l">>
                  dt == DropLast(st, 1) \o <<"t", "t">>
                  v1 == IF eler /\ endsWith(st, <<"e", "l">>)
                        THEN <<dl, eToEGrave(dl)>> ELSE <<>>
                  v2 == IF eter /\ endsWith(st, <<"e", "t">>)
                        THEN <<dt, eToEGrave(dt)>> ELSE <<>>
              IN  Dedup(<<st, eToEGrave(st)>> \o v1 \o v2)

PresentEr == <<<<"e">>, <<"e", "s">>, <<"e">>, <<"o", "n", "s">>, <<"e", "z">>, <<"e", "n", "t">>>>
PresentIr == <<<<"i", "s">>, <<"i", "s">>, <<"i", "t">>, <<"i", "s", "s", "o", "n", "s">>,
               <<"i", "s", "s", "e", "z">>, <<"i", "s", "s", "e", "n", "t">>>>
PresentRe == <<<<"s">>, <<"s">>, <<>>, <<"o", "n", "s">>, <<"e", "z">>, <<"e", "n", "t">>>>
Imparfait == <<<<"a", "i", "s">>, <<"a", "i", "s">>, <<"a", "i", "t">>, <<"i", "o", "n", "s">>,
               <<"i", "e", "z">>, <<"a", "i", "e", "n", "t">>>>
Futur == <<<<"a", "i">>, <<"a", "s">>, <<"a">>, <<"o", "n", "s">>, <<"e", "z">>, <<"o", "n", "t">>>>
PasseSimpleEr == <<<<"a", "i">>, <<"a", "s">>, <<"a">>, <<"â", "m", "e", "s">>,
                   <<"â", "t", "e", "s">>, <<"è", "r", "e", "n", "t">>>>
PasseSimpleIrRe == <<<<"i", "s">>, <<"i", "s">>, <<"i", "t">>, <<"î", "m", "e", "s">>,
                     <<"î", "t", "e", "s">>, <<"i", "r", "e", "n", "t">>>>

\* personIdx is 0-based
regularEnding(w, tk, personIdx) ==
    LET group == verbGroup(w) IN
    IF tk = "present" THEN
        IF group = "er" THEN PresentEr[personIdx + 1]
        ELSE IF group = "ir" THEN PresentIr[personIdx + 1]
        ELSE IF group = "re" THEN PresentRe[personIdx + 1]
        ELSE <<>>
    ELSE IF tk = "imparfait" THEN Imparfait[personIdx + 1]
    ELSE IF tk = "futur" THEN Futur[personIdx + 1]
    ELSE IF tk = "passe_simple" /\ group = "er"
         THEN PasseSimpleEr[personIdx + 1]
    ELSE IF tk = "passe_simple" /\ group \in {"ir", "re"}
         THEN PasseSimpleIrRe[personIdx + 1]
    ELSE <<>>

\* expectedBaseForm slicing two letters off an infinitive of group other too
expectedBaseForm_sliceAlways(w, tk, personIdx, sts) ==
    LET group == verbGroup(w)
        st == DropLast(w, 2)
        ending == regularEnding(w, tk, personIdx)
    IN
    IF tk = "present" THEN st \o ending
    ELSE IF tk = "imparfait" THEN
        (IF sts.imparfaitStem # <<>> THEN sts.imparfaitStem
         ELSE IF group = "ir" THEN st \o <<"i", "s", "s">>
         ELSE st) \o ending
    ELSE IF tk = "futur" THEN
        (IF group = "re" THEN DropLast(w, 1) ELSE w) \o ending
    ELSE IF tk = "passe_simple" THEN st \o ending
    ELSE <<>>

\* sts.imparfaitStem = <<>> stands for a stems object without imparfaitStem
\* and for an empty one: both are falsy at line 249
expectedBaseForm(w, tk, personIdx, sts) ==
    LET group == verbGroup(w)
        st == IF group = "other" THEN w ELSE DropLast(w, 2)
        ending == regularEnding(w, tk, personIdx)
    IN
    IF tk = "present" THEN st \o ending
    ELSE IF tk = "imparfait" THEN
        (IF sts.imparfaitStem # <<>> THEN sts.imparfaitStem
         ELSE IF group = "ir" THEN st \o <<"i", "s", "s">>
         ELSE st) \o ending
    ELSE IF tk = "futur" THEN
        (IF group = "re" THEN DropLast(w, 1) ELSE w) \o ending
    ELSE IF tk = "passe_simple" THEN st \o ending
    ELSE <<>>

\* lines 274-286: the present-tense stem variants with the ending appended
ExpandedPresent(w, personIdx) ==
    LET st == DropLast(w, 2)
        end == regularEnding(w, "present", personIdx)
        l1 == yerStemVariants(st, w, "present", personIdx)
        l2 == Flatten([k \in 1..Len(l1) |->
                          eerStemVariants(l1[k], w, "present", personIdx)])
        l3 == Flatten([k \in 1..Len(l2) |->
                          elerEterStemVariants(l2[k], w, "present", personIdx)])
    IN  [k \in 1..Len(l3) |-> l3[k] \o end]

expectedRegularVariants(w, tk, personIdx, sts) ==
    LET group == verbGroup(w)
        base == expectedBaseForm(w, tk, personIdx, sts)
    IN
    IF base = <<>> THEN <<>>
    ELSE LET ending == regularEnding(w, tk, personIdx)
             variants == cerGerVariants(base, w, ending)
             expanded == IF tk = "present" /\ group # "other"
                         THEN ExpandedPresent(w, personIdx) ELSE <<>>
         IN  FilterNonEmpty(Dedup(variants \o expanded))

-----------------------------------------------------------------------------
(* The cells of a row, app.js 46-59, 427-478 and 487-562. *)

\* CommonRun comparing the characters as they are, case included
RECURSIVE CommonRun_caseSensitive(_, _, _)
CommonRun_caseSensitive(shared, form, i) ==
    IF i < Len(shared) /\ i < Len(form) /\ shared[i + 1] = form[i + 1]
    THEN <<shared[i + 1]>> \o CommonRun_caseSensitive(shared, form, i + 1)
    ELSE <<>>

\* lines 50-54: the run on which shared and form agree up to case, in the
\* letters of shared
RECURSIVE CommonRun(_, _, _)
CommonRun(shared, form, i) ==
    IF i < Len(shared) /\ i < Len(form)
       /\ toLowerCaseChar(shared[i + 1]) = toLowerCaseChar(form[i + 1])
    THEN <<shared[i + 1]>> \o CommonRun(shared, form, i + 1)
    ELSE <<>>

\* the loop 49-57 from the k-th form on
RECURSIVE UnionLoop(_, _, _)
UnionLoop(shared, forms, k) ==
    IF k > Len(forms) THEN shared
    ELSE LET tmp == CommonRun(shared, forms[k], 0) IN
         IF tmp = <<>> THEN tmp ELSE UnionLoop(tmp, forms, k + 1)

applyBlackUnionRules(forms) ==
    IF Len(forms) = 0 THEN <<>> ELSE UnionLoop(forms[1], forms, 2)

NoCellBuilt == [rendered |-> FALSE, shared |-> <<>>, rows |-> <<>>]

tenseMap ==
    [k \in {"pr", "imp", "ps", "fut"} |->
        CASE k = "pr" -> "present" [] k = "imp" -> "imparfait"
          [] k = "ps" -> "passe_simple" [] k = "fut" -> "futur"]

\* lines 494-496: stems from the present nous form
StemsOf(entry) ==
    LET pr == entry.t["pr"]
        nous == IF Len(pr) >= 4 THEN pr[4] ELSE <<>>
    IN  [imparfaitStem |->
            IF endsWith(nous, <<"o", "n", "s">>) THEN DropLast(nous, 3)
            ELSE <<>>]

\* one iteration of the loop 506-547: the form, its mask and its modes
TenseRow(entry, key, words, shared, i) ==
    LET form == IF i + 1 <= Len(words) THEN words[i + 1] ELSE <<>>
        variants == expectedRegularVariants(entry.w, tenseMap[key], i,
                                            StemsOf(entry))
        irregularMask == bestExpectedMask(form, variants)
    IN  [form |-> form,
         null |-> irregularMask.null,
         mask |-> irregularMask.mask,
         colored |-> colorizeForm(form, shared, linguisticStem(entry.w),
                                  irregularMask)]

\* buildTenseCell without the guard of line 489: a tense with fewer than
\* six forms is analysed form by form, without a shared prefix
buildTenseCell_noGuard(entry, key) ==
    LET forms == entry.t[key]
        shared == IF Len(forms) < 6 THEN <<>>
                  ELSE applyBlackUnionRules(forms)
    IN  [rendered |-> TRUE,
         shared |-> shared,
         rows |-> [i \in 1..6 |->
                      TenseRow(entry, key, forms, shared, i - 1)]]

\* buildTenseCell with the guard of line 489 off by one: five forms pass
buildTenseCell_fiveForms(entry, key) ==
    LET forms == entry.t[key] IN
    IF Len(forms) < 5 THEN NoCellBuilt
    ELSE LET shared == applyBlackUnionRules(forms)
         IN  [rendered |-> TRUE,
              shared |-> shared,
              rows |-> [i \in 1..6 |->
                           TenseRow(entry, key, forms, shared, i - 1)]]

\* buildTenseCell: rendered is FALSE for the empty cell of line 489; the
\* markup, the IPA and the audio links of the cell are left out
buildTenseCell(entry, key) ==
    LET forms == entry.t[key] IN
    IF Len(forms) < 6 THEN NoCellBuilt
    ELSE LET words == forms
             shared == applyBlackUnionRules(words)
         IN  [rendered |-> TRUE,
              shared |-> shared,
              rows |-> [i \in 1..6 |->
                           TenseRow(entry, key, words, shared, i - 1)]]

\* buildParticiplesCell: the participles that are present, colored with
\* their shared prefix and no mask
buildParticiplesCell(entry) ==
    LET forms == FilterNonEmpty(<<entry.part.pres, entry.part.past>>)
        shared == applyBlackUnionRules(forms)
    IN  [rendered |-> TRUE,
         shared |-> shared,
         rows |-> [k \in 1..Len(forms) |->
                      [form |-> forms[k],
                       null |-> TRUE,
                       mask |-> <<>>,
                       colored |-> colorizeForm(forms[k], shared,
                                                linguisticStem(entry.w),
                                                NoBest)]]]

-----------------------------------------------------------------------------
(* Calls of editMask on every pair of bounded strings. *)

\* no tense cell under construction
NoCell ==
    /\ inf = <<>> /\ tenseKey = "" /\ personIndex = 0
    /\ stems = [imparfaitStem |-> <<>>]

\* no row under construction
NoRow ==
    /\ v = [w |-> <<>>,
            t |-> [k \in {"pr", "imp", "ps", "fut"} |-> <<>>],
            part |-> [pres |-> <<>>, past |-> <<>>]]
    /\ cellKey = ""
    /\ cell = NoCellBuilt

\* no call of applyBlackUnionRules under study
NoUnion == unionForms = <<>> /\ unionShared = <<>>

\* no call of markStemLetters under study
NoMark == stemMarks = <<>>

\* the search box before any input: lines 1166-1167
NoSearch ==
    /\ qValue = <<>>
    /\ limitArg = 0
    /\ suggestions = <<>>
    /\ currentSuggestions = <<>>
    /\ selectedIndex = -1
    /\ picked = ""
    /\ calls = 0

\* the search bar before any scroll: lines 946-948
NoFloat ==
    /\ floatingState = FALSE
    /\ floatingLocked = FALSE
    /\ floatingOffTimer = 0
    /\ classList = {}
    /\ frames = 0
    /\ timers = {}
    /\ lastTimer = 0

\* no chunk asked for: lines 870 and 894
NoLoad ==
    /\ chunks = <<>>
    /\ chunkIndex = 0
    /\ verbs = <<>>
    /\ loadedCount = 0
    /\ statusText = [kind |-> "progress", count |-> 0]
    /\ attempted = <<>>

NoPage == NoSearch /\ NoFloat /\ NoLoad

\* the page before any chunk is loaded: lines 869, 816 and 1089
NoUi ==
    /\ entries = <<>>
    /\ rows = <<>>
    /\ didInitialSeed = FALSE
    /\ tries = 0

InitEdit ==
    /\ pc = "editMask"
    /\ NoUnion
    /\ NoUi
    /\ NoMark
    /\ NoPage
    /\ actual \in StringsOver(EditAlphabet, MaxLen)
    /\ expected \in StringsOver(EditAlphabet, MaxLen)
    /\ em = NoEditMask
    /\ expectedVariants = <<>>
    /\ best = NoBest
    /\ sharedPrefix = <<>> /\ stem = <<>> /\ colored = <<>>
    /\ NoCell
    /\ NoRow

CallEditMask ==
    /\ pc = "editMask"
    /\ em' = editMask(actual, expected)
    /\ pc' = "editMask.return"
    /\ UNCHANGED <<actual, expected, expectedVariants, best,
                   sharedPrefix, stem, colored, cellVars, rowVars, unionVars, uiVars, markVars, pageVars>>

NextEdit == CallEditMask

SpecEdit == InitEdit /\ [][NextEdit]_vars

-----------------------------------------------------------------------------
(* Calls of bestExpectedMask on bounded forms and variant lists. *)

InitBest ==
    /\ pc = "bestExpectedMask"
    /\ NoUnion
    /\ NoUi
    /\ NoMark
    /\ NoPage
    /\ actual \in StringsOver(BestAlphabet, MaxBestLen)
    /\ expectedVariants \in
           ListsOver(StringsOver(BestAlphabet, MaxBestLen), MaxVariants)
    /\ expected = <<>>
    /\ em = NoEditMask
    /\ best = NoBest
    /\ sharedPrefix = <<>> /\ stem = <<>> /\ colored = <<>>
    /\ NoCell
    /\ NoRow

CallBestExpectedMask ==
    /\ pc = "bestExpectedMask"
    /\ best' = bestExpectedMask(actual, expectedVariants)
    /\ pc' = "bestExpectedMask.return"
    /\ UNCHANGED <<actual, expected, em, expectedVariants,
                   sharedPrefix, stem, colored, cellVars, rowVars, unionVars, uiVars, markVars, pageVars>>

NextBest == CallBestExpectedMask

SpecBest == InitBest /\ [][NextBest]_vars

-----------------------------------------------------------------------------
(* bestExpectedMask on at most one variant, then colorizeForm with the     *)
(* mask it returned, as lines 509-510 chain them.                          *)

InitColor ==
    /\ pc = "bestExpectedMask"
    /\ NoUnion
    /\ NoUi
    /\ NoMark
    /\ NoPage
    /\ actual \in StringsOver(ColorAlphabet, MaxFormLen)
    /\ expectedVariants \in
           ListsOver(StringsOver(BestAlphabet, MaxFormLen), 1)
    /\ expected = <<>>
    /\ em = NoEditMask
    /\ best = NoBest
    /\ sharedPrefix = <<>> /\ stem = <<>> /\ colored = <<>>
    /\ NoCell
    /\ NoRow

CallColorizeForm ==
    /\ pc = "bestExpectedMask.return"
    /\ \E prefix \in StringsOver(PrefixAlphabet, MaxStemLen),
          st \in StringsOver(StemAlphabet, MaxStemLen) :
            /\ sharedPrefix' = prefix
            /\ stem' = st
            /\ colored' = colorizeForm(actual, prefix, st, best)
    /\ pc' = "colorizeForm.return"
    /\ UNCHANGED <<actual, expected, em, expectedVariants, best,
                   cellVars, rowVars, unionVars, uiVars, markVars, pageVars>>

NextColor == CallBestExpectedMask \/ CallColorizeForm

SpecColor == InitColor /\ [][NextColor]_vars

-----------------------------------------------------------------------------
(* One form of one tense cell, as the loop body 507-510 of buildTenseCell  *)
(* treats it: expectedRegularVariants, bestExpectedMask, colorizeForm.     *)

TenseKeys == {"present", "imparfait", "passe_simple", "futur"}

\* verbs of every group and of every spelling rule
Verbs ==
    {
     <<"p", "a", "r", "l", "e", "r">>,
     <<"f", "i", "n", "i", "r">>,
     <<"v", "e", "n", "d", "r", "e">>,
     <<"h", "a", "ï", "r">>,
     <<"m", "a", "n", "g", "e", "r">>,
     <<"l", "a", "n", "c", "e", "r">>,
     <<"g", "a", "g", "e", "r">>,
     <<"p", "a", "y", "e", "r">>,
     <<"n", "o", "y", "e", "r">>,
     <<"e", "s", "s", "u", "y", "e", "r">>,
     <<"l", "e", "v", "e", "r">>,
     <<"c", "é", "d", "e", "r">>,
     <<"c", "r", "é", "e", "r">>,
     <<"a", "p", "p", "e", "l", "e", "r">>,
     <<"j", "e", "t", "e", "r">>,
     <<"a", "c", "h", "e", "t", "e", "r">>,
     <<"b", "o", "i", "r", "e">>,
     <<"P", "l", "a", "c", "e", "r">>}

\* letters and endings of the synthetic infinitives
InfAlphabet == {"c", "e", "y"}
InfEndings == {ER, IR, RE, <<>>, <<"ï", "r">>}

Infinitives ==
    Verbs \cup ({s \o e : s \in StringsOver(InfAlphabet, MaxInfStem),
                           e \in InfEndings} \ {<<>>})

\* line 496: the present nous form without its -ons; a regular one, one with
\* a softened stem, an unrelated one, or none
ImparfaitStems(w) ==
    {<<>>, linguisticStem(w), linguisticStem(w) \o <<"e">>, <<"b", "u", "v">>}

Range(list) == {list[k] : k \in DOMAIN list}

\* the attested forms drawn for a cell: every regular variant, the
\* linguistic stem with the table ending, an unrelated form, and no form
AttestedForms(w, tk, personIdx, sts) ==
    Range(expectedRegularVariants(w, tk, personIdx, sts))
        \cup {linguisticStem(w) \o regularEnding(w, tk, personIdx),
              <<"v", "a", "i", "s">>, <<>>}

\* the shared prefixes drawn for a form: none, its first letter, all of it,
\* and a foreign one
SharedPrefixes(form) ==
    {<<>>, SubSeq(form, 1, IF form = <<>> THEN 0 ELSE 1), form, <<"z">>}

InitRegular ==
    /\ pc = "expectedRegularVariants"
    /\ NoUnion
    /\ NoUi
    /\ NoMark
    /\ NoPage
    /\ inf \in Infinitives
    /\ tenseKey \in TenseKeys
    /\ personIndex \in 0..5
    /\ stems \in [imparfaitStem : ImparfaitStems(inf)]
    /\ actual \in AttestedForms(inf, tenseKey, personIndex, stems)
    /\ expectedVariants = <<>>
    /\ expected = <<>>
    /\ em = NoEditMask
    /\ best = NoBest
    /\ sharedPrefix = <<>> /\ stem = <<>> /\ colored = <<>>
    /\ NoRow

CallExpectedRegularVariants ==
    /\ pc = "expectedRegularVariants"
    /\ expectedVariants' =
           expectedRegularVariants(inf, tenseKey, personIndex, stems)
    /\ pc' = "bestExpectedMask"
    /\ UNCHANGED <<actual, expected, em, best, sharedPrefix, stem, colored,
                   cellVars, rowVars, unionVars, uiVars, markVars, pageVars>>

\* line 510 with the stem of line 492 and some shared prefix
ColorizeTenseForm ==
    /\ pc = "bestExpectedMask.return"
    /\ \E prefix \in SharedPrefixes(actual) :
            /\ sharedPrefix' = prefix
            /\ stem' = linguisticStem(inf)
            /\ colored' = colorizeForm(actual, prefix, linguisticStem(inf), best)
    /\ pc' = "colorizeForm.return"
    /\ UNCHANGED <<actual, expected, em, expectedVariants, best,
                   cellVars, rowVars, unionVars, uiVars, markVars, pageVars>>

NextRegular ==
    \/ CallExpectedRegularVariants
    \/ CallBestExpectedMask
    \/ ColorizeTenseForm

SpecRegular == InitRegular /\ [][NextRegular]_vars

-----------------------------------------------------------------------------
(* The cells of one row: buildParticiplesCell and buildTenseCell on verb   *)
(* entries whose tenses give up to MaxForms forms.                         *)

CellKeys == {"pr", "imp", "ps", "fut"}

NoStems == [imparfaitStem |-> <<>>]

\* the verbs of the entries: one of each group
EntryVerbs == {
     <<"p", "a", "r", "l", "e", "r">>, 
     <<"f", "i", "n", "i", "r">>, 
     <<"v", "e", "n", "d", "r", "e">>}

\* the regular paradigm of a tense, continued cyclically beyond six forms
RegularForms(w, key, n) ==
    [k \in 1..n |-> expectedBaseForm(w, tenseMap[key], (k - 1) % 6, NoStems)]

\* the present of aller, whose forms share no prefix
Aller == <<<<"v", "a", "i", "s">>, <<"v", "a", "s">>, <<"v", "a">>,
           <<"a", "l", "l", "o", "n", "s">>, <<"a", "l", "l", "e", "z">>, <<"v", "o", "n", "t">>>>

\* the ending of the regular past participle
PastEnding(w) ==
    CASE verbGroup(w) = "er" -> <<"é">>
      [] verbGroup(w) = "ir" -> <<"i">>
      [] OTHER -> <<"u">>

Capitalize(form) ==
    IF form # <<>> /\ \E u \in DOMAIN UpperToLower : UpperToLower[u] = form[1]
    THEN <<CHOOSE u \in DOMAIN UpperToLower : UpperToLower[u] = form[1]>>
             \o Tail(form)
    ELSE form

\* a form given as it is, missing, capitalised, or replaced
Alternatives(form) == {form, <<>>, Capitalize(form), <<"v", "a", "i", "s">>}

\* the lists of n forms that differ from the list given in at most one form
OneChanged(forms) ==
    {forms} \cup UNION {{[forms EXCEPT ![k] = alt] :
                            alt \in Alternatives(forms[k])} :
                        k \in DOMAIN forms}

\* the entries: a regular verb with one tense cut to n forms and changed in
\* at most one form, each participle given or missing
EntriesOf(w, key) ==
    {[w |-> w,
      t |-> [k \in CellKeys |-> IF k = key THEN forms
                                ELSE RegularForms(w, k, 6)],
      part |-> [pres |-> pres, past |-> past]] :
        forms \in UNION {OneChanged(RegularForms(w, key, n)) \cup
                             {SubSeq(Aller, 1, IF n < 6 THEN n ELSE 6)} :
                         n \in 0..MaxForms},
        pres \in {<<>>, linguisticStem(w) \o <<"a", "n", "t">>},
        past \in {<<>>, linguisticStem(w) \o PastEnding(w)}}

Entries == UNION {EntriesOf(w, key) : w \in EntryVerbs, key \in CellKeys}

InitRow ==
    /\ pc = "buildRow"
    /\ NoUnion
    /\ NoUi
    /\ NoMark
    /\ NoPage
    /\ v \in Entries
    /\ cellKey = ""
    /\ cell = NoCellBuilt
    /\ actual = <<>> /\ expected = <<>> /\ em = NoEditMask
    /\ expectedVariants = <<>> /\ best = NoBest
    /\ sharedPrefix = <<>> /\ stem = <<>> /\ colored = <<>>
    /\ NoCell

CallBuildParticiplesCell ==
    /\ pc = "buildRow"
    /\ cellKey' = "part"
    /\ cell' = buildParticiplesCell(v)
    /\ pc' = "buildParticiplesCell.return"
    /\ UNCHANGED <<v, actual, expected, em, expectedVariants, best,
                   sharedPrefix, stem, colored, cellVars, unionVars,
                   uiVars, markVars, pageVars>>

CallBuildTenseCell ==
    /\ pc = "buildRow"
    /\ \E key \in CellKeys :
          /\ cellKey' = key
          /\ cell' = buildTenseCell(v, key)
    /\ pc' = "buildTenseCell.return"
    /\ UNCHANGED <<v, actual, expected, em, expectedVariants, best,
                   sharedPrefix, stem, colored, cellVars, unionVars,
                   uiVars, markVars, pageVars>>

NextRow == CallBuildParticiplesCell \/ CallBuildTenseCell

SpecRow == InitRow /\ [][NextRow]_vars

-----------------------------------------------------------------------------
(* Calls of applyBlackUnionRules on bounded lists of forms, on the present *)
(* of parler with at most one form changed, and on the present of aller.   *)

ParleForms ==
    <<<<"p", "a", "r", "l", "e">>, <<"p", "a", "r", "l", "e", "s">>,
      <<"p", "a", "r", "l", "e">>, <<"p", "a", "r", "l", "o", "n", "s">>,
      <<"p", "a", "r", "l", "e", "z">>,
      <<"p", "a", "r", "l", "e", "n", "t">>>>

InitUnion ==
    /\ pc = "applyBlackUnionRules"
    /\ unionForms \in
           ListsOver(StringsOver(UnionAlphabet, MaxUnionLen), MaxUnionForms)
               \cup OneChanged(ParleForms) \cup {Aller}
    /\ unionShared = <<>>
    /\ NoUi
    /\ NoMark
    /\ NoPage
    /\ actual = <<>> /\ expected = <<>> /\ em = NoEditMask
    /\ expectedVariants = <<>> /\ best = NoBest
    /\ sharedPrefix = <<>> /\ stem = <<>> /\ colored = <<>>
    /\ NoCell
    /\ NoRow

CallApplyBlackUnionRules ==
    /\ pc = "applyBlackUnionRules"
    /\ unionShared' = applyBlackUnionRules(unionForms)
    /\ pc' = "applyBlackUnionRules.return"
    /\ UNCHANGED <<unionForms, actual, expected, em, expectedVariants, best,
                   sharedPrefix, stem, colored, cellVars, rowVars, uiVars, markVars, pageVars>>

NextUnion == CallApplyBlackUnionRules

SpecUnion == InitUnion /\ [][NextUnion]_vars

-----------------------------------------------------------------------------
(* expectedRegularVariants and bestExpectedMask on the infinitives of the  *)
(* spelling rules: -cer, -ger, -eler, -eter, -ayer, -oyer, -uyer.          *)

Commencer == <<"c", "o", "m", "m", "e", "n", "c", "e", "r">>

SpellingAlphabet == {"c", "g", "o", "y"}

SpellingEndings ==
    {<<"c", "e", "r">>, <<"g", "e", "r">>,
     <<"e", "l", "e", "r">>, <<"e", "t", "e", "r">>,
     <<"a", "y", "e", "r">>, <<"o", "y", "e", "r">>, <<"u", "y", "e", "r">>}

SpellingInfinitives ==
    Verbs \cup {Commencer}
        \cup {s \o e : s \in StringsOver(SpellingAlphabet, MaxSpellStem),
                        e \in SpellingEndings}

InitSpelling ==
    /\ pc = "expectedRegularVariants"
    /\ NoUnion
    /\ NoUi
    /\ NoMark
    /\ NoPage
    /\ inf \in SpellingInfinitives
    /\ tenseKey \in TenseKeys
    /\ personIndex \in 0..5
    /\ stems \in [imparfaitStem : {<<>>, linguisticStem(inf)}]
    /\ actual \in AttestedForms(inf, tenseKey, personIndex, stems)
    /\ expectedVariants = <<>>
    /\ expected = <<>>
    /\ em = NoEditMask
    /\ best = NoBest
    /\ sharedPrefix = <<>> /\ stem = <<>> /\ colored = <<>>
    /\ NoRow

NextSpelling == CallExpectedRegularVariants \/ CallBestExpectedMask

SpecSpelling == InitSpelling /\ [][NextSpelling]_vars

-----------------------------------------------------------------------------
(* Calls of markStemLetters on bounded forms and stems. *)

InitMark ==
    /\ pc = "markStemLetters"
    /\ NoUnion
    /\ NoUi
    /\ NoPage
    /\ stemMarks = <<>>
    /\ actual \in StringsOver(ColorAlphabet, MaxFormLen)
    /\ stem \in StringsOver(MarkAlphabet, MaxStemLen)
    /\ expected = <<>> /\ em = NoEditMask
    /\ expectedVariants = <<>> /\ best = NoBest
    /\ sharedPrefix = <<>> /\ colored = <<>>
    /\ NoCell
    /\ NoRow

CallMarkStemLetters ==
    /\ pc = "markStemLetters"
    /\ stemMarks' = markStemLetters(actual, stem)
    /\ pc' = "markStemLetters.return"
    /\ UNCHANGED <<actual, expected, em, expectedVariants, best,
                   sharedPrefix, stem, colored, cellVars, rowVars,
                   unionVars, uiVars, pageVars>>

NextMark == CallMarkStemLetters

SpecMark == InitMark /\ [][NextMark]_vars

-----------------------------------------------------------------------------
(* The rows of the page, app.js 1056-1101: seedInitialRows called once     *)
(* some verbs are loaded (line 1148), maybeAddRandomRow, addRowToBottom.   *)

INITIAL_TOTAL_ROWS == 8

MAX_ROWS == 200

\* line 1081: the draws maybeAddRandomRow makes at most
RandomTries == 30

\* the verbs of the data, in the order the chunks give them
WordList ==
    <<"aimer", "avoir", "finir", "faire", "aller", "dire", "voir",
      "venir", "rendre", "lire", "boire">>

\* line 1068
shownWords(rws) == {rws[k] : k \in DOMAIN rws}

\* line 1059: the rows of the word are removed
RemoveWord(rws, word) == SelectSeq(rws, LAMBDA x : x # word)

enforceMaxRows_dropFirst(rws) ==
    IF Len(rws) > MAX_ROWS THEN SubSeq(rws, Len(rws) - MAX_ROWS + 1, Len(rws))
    ELSE rws

\* lines 1071-1075
enforceMaxRows(rws) ==
    IF Len(rws) > MAX_ROWS THEN SubSeq(rws, 1, MAX_ROWS) ELSE rws

\* lines 1056-1065 on the rows; known is the key set of byWord
addRowToBottom(rws, word, known) ==
    IF word \notin known THEN rws
    ELSE enforceMaxRows(Append(RemoveWord(rws, word), word))

\* lines 717-722: the values cryptoRandomInt can return
cryptoRandomInt(maxExclusive) ==
    IF maxExclusive <= 0 THEN {0} ELSE 0..(maxExclusive - 1)

\* byWord has the words of entries as its keys (addEntry, 876-891)
byWordKeys == {entries[k] : k \in DOMAIN entries}

\* the variables of the diff engine, which the page handlers leave alone
engineVars ==
    <<actual, expected, em, expectedVariants, best, sharedPrefix, stem,
      colored, cellVars, rowVars, unionVars, markVars>>

InitSeed ==
    /\ pc = "seedInitialRows"
    /\ entries \in {SubSeq(WordList, 1, n) : n \in 0..MaxEntries}
    /\ rows = <<>>
    /\ didInitialSeed = FALSE
    /\ tries = 0
    /\ NoUnion
    /\ NoMark
    /\ NoPage
    /\ actual = <<>> /\ expected = <<>> /\ em = NoEditMask
    /\ expectedVariants = <<>> /\ best = NoBest
    /\ sharedPrefix = <<>> /\ stem = <<>> /\ colored = <<>>
    /\ NoCell
    /\ NoRow

\* lines 1091-1096: the flag, then avoir and faire
SeedFixedRows ==
    /\ pc = "seedInitialRows"
    /\ ~didInitialSeed
    /\ didInitialSeed' = TRUE
    /\ LET add(rws, w) ==
               IF w \in byWordKeys /\ w \notin shownWords(rws)
               THEN addRowToBottom(rws, w, byWordKeys) ELSE rws
       IN  rows' = add(add(rows, "avoir"), "faire")
    /\ pc' = "seedInitialRows.while"
    /\ UNCHANGED <<entries, tries, engineVars, pageVars>>

\* line 1098, and lines 1078-1081 of the call it makes: the pool is the
\* words of entries, which is not empty here
SeedWhile ==
    /\ pc = "seedInitialRows.while"
    /\ IF Cardinality(shownWords(rows)) < INITIAL_TOTAL_ROWS
          /\ Len(entries) > 0
       THEN pc' = "maybeAddRandomRow.for" /\ tries' = 0
       ELSE pc' = "seedInitialRows.return" /\ tries' = tries
    /\ UNCHANGED <<entries, rows, didInitialSeed, engineVars, pageVars>>

\* lines 1081-1085: one draw; shown is the set taken at line 1078, which
\* is the words of rows as long as the loop runs
TryRandomWord ==
    /\ pc = "maybeAddRandomRow.for"
    /\ tries < RandomTries
    /\ \E r \in cryptoRandomInt(Len(entries)) :
          LET w == entries[r + 1] IN
          IF w \in shownWords(rows) \/ w \notin byWordKeys
          THEN /\ tries' = tries + 1
               /\ UNCHANGED <<rows, pc>>
          ELSE /\ rows' = addRowToBottom(rows, w, byWordKeys)
               /\ pc' = "seedInitialRows.while"
               /\ tries' = tries
    /\ UNCHANGED <<entries, didInitialSeed, engineVars, pageVars>>

\* line 1081 with i = 30: the loop ends and maybeAddRandomRow returns
\* without a row
GiveUpRandomWord ==
    /\ pc = "maybeAddRandomRow.for"
    /\ tries = RandomTries
    /\ pc' = "seedInitialRows.while"
    /\ UNCHANGED <<entries, rows, didInitialSeed, tries, engineVars, pageVars>>

NextSeed ==
    \/ SeedFixedRows
    \/ SeedWhile
    \/ TryRandomWord
    \/ GiveUpRandomWord

SpecSeed == InitSeed /\ [][NextSeed]_vars

\* a draw of line 1082 that falls on a verb not yet shown
DrawUnshownWord == TryRandomWord /\ rows' # rows

\* the handler runs to its end without a break: JavaScript runs a function
\* to completion; and the draws of crypto.getRandomValues do not fall on
\* shown verbs for ever while another verb is loaded
SpecSeedFair ==
    SpecSeed /\ WF_vars(NextSeed) /\ SF_vars(DrawUnshownWord)

-----------------------------------------------------------------------------
(* The search suggestions, app.js 23-30, 724-802 and 876-891.              *)

\* line 27: what the decomposition NFD and the removal of the combining
\* marks leave of the accented letters of the model
Unaccented ==
    [c \in {"é", "è", "ê", "ç", "à", "â", "î"} |->
        CASE c \in {"é", "è", "ê"} -> "e"
          [] c = "ç" -> "c"
          [] c \in {"à", "â"} -> "a"
          [] c = "î" -> "i"]

\* lines 25 and 27-28 on one character: lower case, then the accents; the
\* ligature and the typographic apostrophe of line 26 are not among the
\* letters of the model
normalizeChar(c) ==
    LET l == toLowerCaseChar(c)
    IN  IF l \in DOMAIN Unaccented THEN <<Unaccented[l]>> ELSE <<l>>

\* lines 23-30
normalizeFrench(text) ==
    Flatten([k \in 1..Len(text) |-> normalizeChar(text[k])])

\* String.prototype.trim, on the blank of the model
RECURSIVE trimStart(_)
trimStart(s) ==
    IF s # <<>> /\ Head(s) = " " THEN trimStart(Tail(s)) ELSE s

RECURSIVE trimEnd(_)
trimEnd(s) ==
    IF s # <<>> /\ s[Len(s)] = " "
    THEN trimEnd(SubSeq(s, 1, Len(s) - 1)) ELSE s

trim(s) == trimEnd(trimStart(s))

startsWith(s, head) ==
    /\ Len(head) <= Len(s)
    /\ SubSeq(s, 1, Len(head)) = head

includes(s, piece) ==
    \E k \in 0..(Len(s) - Len(piece)) :
        SubSeq(s, k + 1, k + Len(piece)) = piece

\* Array.prototype.join
RECURSIVE join(_, _)
join(list, sep) ==
    IF list = <<>> THEN <<>>
    ELSE IF Len(list) = 1 THEN list[1]
    ELSE list[1] \o sep \o join(Tail(list), sep)

\* list.findIndex((f) => f === q): 0-based, or -1
findIndex(list, q) ==
    LET hits == {k \in 0..(Len(list) - 1) : list[k + 1] = q}
    IN  IF hits = {} THEN -1
        ELSE CHOOSE k \in hits : \A h \in hits : k <= h

\* lines 724-736 on the verbs of the data: the infinitive, then the
\* participles and the forms of the tenses that are strings
collectAllForms ==
    [w \in {"lire", "relire", "élire", "lier", "livrer"} |->
        CASE w = "lire" ->
                 << <<"l", "i", "r", "e">>, <<"l", "i", "s", "a", "n", "t">>,
                    <<"l", "u">>, <<"l", "i", "s">>, <<"l", "i", "t">> >>
          [] w = "relire" ->
                 << <<"r", "e", "l", "i", "r", "e">>, <<"r", "e", "l", "u">>,
                    <<"r", "e", "l", "i", "s">> >>
          [] w = "élire" ->
                 << <<"é", "l", "i", "r", "e">>, <<"é", "l", "u">>,
                    <<"é", "l", "i", "s">> >>
          [] w = "lier" ->
                 << <<"l", "i", "e", "r">>, <<"l", "i", "é">>,
                    <<"l", "i", "e">> >>
          [] w = "livrer" ->
                 << <<"l", "i", "v", "r", "e", "r">>,
                    <<"l", "i", "v", "r", "é">>,
                    <<"l", "i", "v", "r", "e">> >>]

SearchWords == DOMAIN collectAllForms

\* lines 881-889: the object addEntry pushes for the verb w
EntryOf(w) ==
    LET fs == collectAllForms[w]
        fsNorm == [k \in 1..Len(fs) |-> normalizeFrench(fs[k])]
    IN  [w |-> w,
         norm |-> normalizeFrench(fs[1]),
         forms |-> fs,
         formsNorm |-> fsNorm,
         formsBlob |-> join(fsNorm, <<" ">>)]

\* the array entries, given the infinitives in load order
EntryList(ws) == [k \in 1..Len(ws) |-> EntryOf(ws[k])]

\* the test of each loop: lines 757-758, 769, 779 and 789
Matches(step, e, q) ==
    CASE step = "form" -> findIndex(e.formsNorm, q) # -1
      [] step = "prefix" -> startsWith(e.norm, q)
      [] step = "contains" -> includes(e.norm, q)
      [] step = "blob" -> includes(e.formsBlob, q)

\* the object each loop pushes: lines 759, 770, 780 and 790-797; form is
\* the empty string where the code leaves it out or sets ""
SuggestionOf(step, e, q) ==
    CASE step = "form" ->
             [w |-> e.w, note |-> "forme",
              form |-> e.forms[findIndex(e.formsNorm, q) + 1]]
      [] step \in {"prefix", "contains"} ->
             [w |-> e.w, note |-> "infinitif", form |-> <<>>]
      [] step = "blob" ->
             LET hits == {i \in 1..Len(e.formsNorm) :
                             includes(e.formsNorm[i], q)}
                 example ==
                     IF hits = {} THEN <<>>
                     ELSE e.forms[CHOOSE i \in hits : \A h \in hits : i <= h]
             IN  [w |-> e.w,
                  note |-> IF example # <<>> THEN "forme"
                           ELSE "forme conjuguée",
                  form |-> example]

\* the set seen: a word enters it with each push
SeenWords(list) == {list[k].w : k \in 1..Len(list)}

\* the one element of a set: {e : x \in {d}} has the value of e for x = d,
\* with d worked out once
Only(S) == CHOOSE x \in S : TRUE

\* one of the loops of lines 755-764, 768-775, 778-785 and 788-799 from
\* the entry k on; returned tells that the loop left by its return
RECURSIVE SuggestLoop(_, _, _, _, _, _)
SuggestLoop(step, es, q, lim, k, acc0) ==
    Only({IF k > Len(es) THEN acc
          ELSE IF es[k].w \in SeenWords(acc.list) \/ ~Matches(step, es[k], q)
          THEN SuggestLoop(step, es, q, lim, k + 1, acc)
          ELSE Only({IF Len(list) >= lim
                     THEN [list |-> list, returned |-> TRUE]
                     ELSE SuggestLoop(step, es, q, lim, k + 1,
                                      [list |-> list, returned |-> FALSE]) :
                     list \in {Append(acc.list,
                                      SuggestionOf(step, es[k], q))}}) :
          acc \in {acc0}})

\* lines 745-751: the first entry whose infinitive is the query
ExactInfinitive(es, q) ==
    LET exact == {k \in 1..Len(es) : es[k].norm = q}
    IN  IF exact = {} THEN <<>>
        ELSE LET k == CHOOSE i \in exact : \A h \in exact : i <= h
             IN  <<[w |-> es[k].w, note |-> "infinitif", form |-> <<>>]>>

\* lines 753-799: a loop runs unless an earlier one returned
ThenLoop(step, es, q, lim, before) ==
    Only({IF s.returned THEN s ELSE SuggestLoop(step, es, q, lim, 1, s) :
          s \in {before}})

\* lines 738-802
computeSuggestions(entryList, query, lim) ==
    Only({IF q = <<>> THEN <<>>
          ELSE ThenLoop("blob", es, q, lim,
                   ThenLoop("contains", es, q, lim,
                       ThenLoop("prefix", es, q, lim,
                           Only({IF Len(first) < lim
                                 THEN SuggestLoop("form", es, q, lim, 1,
                                          [list |-> first,
                                           returned |-> FALSE])
                                 ELSE [list |-> first, returned |-> FALSE] :
                                 first \in {ExactInfinitive(es, q)}})))).list :
          es \in {entryList}, q \in {normalizeFrench(trim(query))}})

\* the texts typed in the search box: nothing, a blank, an infinitive, the
\* head of several, a form between blanks, accented letters, the end of a
\* form with the head of the next one, and a text no verb has
Queries ==
    { <<>>, <<" ">>, <<"l", "i", "r", "e">>, <<"L", "i">>,
      <<" ", "l", "u", " ">>, <<"é">>, <<"é", "l", "u">>,
      <<"s", " ", "l">>, <<"l", "i", "é">>, <<"x">> }

\* lists of at most n verbs, each once, as addEntry keeps them (line 877)
WordLists(n) ==
    {ws \in ListsOver(SearchWords, n) :
        \A i, j \in 1..Len(ws) : ws[i] = ws[j] => i = j}

InitSuggest ==
    /\ pc = "computeSuggestions"
    /\ entries \in WordLists(MaxSuggestEntries)
    /\ qValue \in Queries
    /\ limitArg \in 1..MaxLimit
    /\ suggestions = <<>>
    /\ currentSuggestions = <<>> /\ selectedIndex = -1
    /\ picked = "" /\ calls = 0
    /\ rows = <<>> /\ didInitialSeed = FALSE /\ tries = 0
    /\ NoFloat
    /\ NoLoad
    /\ NoUnion
    /\ NoMark
    /\ actual = <<>> /\ expected = <<>> /\ em = NoEditMask
    /\ expectedVariants = <<>> /\ best = NoBest
    /\ sharedPrefix = <<>> /\ stem = <<>> /\ colored = <<>>
    /\ NoCell
    /\ NoRow

CallComputeSuggestions ==
    /\ pc = "computeSuggestions"
    /\ suggestions' = computeSuggestions(EntryList(entries), qValue, limitArg)
    /\ pc' = "computeSuggestions.return"
    /\ UNCHANGED <<qValue, limitArg, currentSuggestions, selectedIndex,
                   picked, calls, uiVars, floatVars, loadVars, engineVars>>

NextSuggest == CallComputeSuggestions

SpecSuggest == InitSuggest /\ [][NextSuggest]_vars

-----------------------------------------------------------------------------
(* The rows table under addRowToTop and addRowToBottom, app.js 1027-1075,  *)
(* whoever calls them: pick, the random buttons, seedInitialRows and       *)
(* loadAllChunks.                                                          *)

\* lines 1027-1032 on the rows; known is the key set of byWord
addRowToTop(rws, word, known) ==
    IF word \notin known THEN rws
    ELSE enforceMaxRows(<<word>> \o RemoveWord(rws, word))

\* the infinitive of the n-th verb of a data set large enough to fill the
\* table
Word(n) == "verbe" \o ToString(n)

FirstWords(n) == [k \in 1..n |-> Word(k)]

\* the words the calls are made with: the first and the last verb of a
\* full table, two verbs beyond it, and a word no chunk has
PickedWords ==
    {Word(1), Word(MAX_ROWS), Word(MAX_ROWS + 1), Word(MAX_ROWS + 2),
     "inconnu"}

\* the table empty, one row short of MAX_ROWS and full (after as many calls
\* of addRowToBottom), with two more verbs loaded than the table can hold
InitRows ==
    /\ pc = "main"
    /\ entries = FirstWords(MAX_ROWS + 2)
    /\ rows \in {FirstWords(n) : n \in {0, MAX_ROWS - 1, MAX_ROWS}}
    /\ didInitialSeed = TRUE
    /\ tries = 0
    /\ NoSearch
    /\ NoFloat
    /\ NoLoad
    /\ NoUnion
    /\ NoMark
    /\ actual = <<>> /\ expected = <<>> /\ em = NoEditMask
    /\ expectedVariants = <<>> /\ best = NoBest
    /\ sharedPrefix = <<>> /\ stem = <<>> /\ colored = <<>>
    /\ NoCell
    /\ NoRow

CallAddRowToTop ==
    /\ calls < MaxCalls
    /\ \E w \in PickedWords :
          /\ picked' = w
          /\ rows' = addRowToTop(rows, w, byWordKeys)
    /\ calls' = calls + 1
    /\ pc' = "addRowToTop.return"
    /\ UNCHANGED <<entries, didInitialSeed, tries, qValue, limitArg,
                   suggestions, currentSuggestions, selectedIndex,
                   floatVars, loadVars, engineVars>>

CallAddRowToBottom ==
    /\ calls < MaxCalls
    /\ \E w \in PickedWords :
          /\ picked' = w
          /\ rows' = addRowToBottom(rows, w, byWordKeys)
    /\ calls' = calls + 1
    /\ pc' = "addRowToBottom.return"
    /\ UNCHANGED <<entries, didInitialSeed, tries, qValue, limitArg,
                   suggestions, currentSuggestions, selectedIndex,
                   floatVars, loadVars, engineVars>>

NextRows == CallAddRowToTop \/ CallAddRowToBottom

SpecRows == InitRows /\ [][NextRows]_vars

-----------------------------------------------------------------------------
(* The search box, app.js 1166-1275: the handlers of input, keydown, the   *)
(* search button, the random button, a click on a suggestion and a click   *)
(* elsewhere, while loadAllChunks adds verbs between two events.           *)

\* line 1207: the limit updateSuggestions asks for
SuggestionLimit == 100

\* the order the chunks give the verbs in
LoadOrder == <<"lire", "relire", "élire", "lier", "livrer">>

MathMin(a, b) == IF a <= b THEN a ELSE b

MathMax(a, b) == IF a >= b THEN a ELSE b

\* line 1220
arrowDown(sel, n) == MathMin(sel + 1, n - 1)

arrowUp_noClamp(sel) == sel - 1

\* line 1224
arrowUp(sel) == MathMax(sel - 1, 0)

\* lines 1193-1204
pick(word) ==
    IF word \notin byWordKeys
    THEN UNCHANGED <<rows, picked, qValue, currentSuggestions, selectedIndex>>
    ELSE /\ rows' = addRowToTop(rows, word, byWordKeys)
         /\ picked' = word
         /\ qValue' = <<>>
         /\ currentSuggestions' = <<>>
         /\ selectedIndex' = -1

\* lines 1206-1210, with the text q.value holds
updateSuggestions(text) ==
    \E list \in {computeSuggestions(EntryList(entries), text,
                                    SuggestionLimit)} :
        /\ currentSuggestions' = list
        /\ selectedIndex' = IF Len(list) # 0 THEN 0 ELSE -1

\* the keys pressed in the search box; "a" stands for any other key
Keys == {"ArrowDown", "ArrowUp", "Enter", "Escape", "a"}

InitSearch ==
    /\ pc = "main"
    /\ NoUi
    /\ NoPage
    /\ NoUnion
    /\ NoMark
    /\ actual = <<>> /\ expected = <<>> /\ em = NoEditMask
    /\ expectedVariants = <<>> /\ best = NoBest
    /\ sharedPrefix = <<>> /\ stem = <<>> /\ colored = <<>>
    /\ NoCell
    /\ NoRow

\* lines 876-891, called at line 1144 between two events
AddEntry ==
    /\ Len(entries) < MaxSuggestEntries
    /\ entries' = Append(entries, LoadOrder[Len(entries) + 1])
    /\ loadedCount' = loadedCount + 1
    /\ UNCHANGED <<pc, rows, didInitialSeed, tries, searchVars, floatVars,
                   chunks, chunkIndex, verbs, statusText, attempted,
                   engineVars>>

\* lines 1212-1214: the text changed, then updateSuggestions
InputEvent ==
    /\ \E text \in Queries :
          /\ qValue' = text
          /\ updateSuggestions(text)
    /\ UNCHANGED <<pc, uiVars, limitArg, suggestions, picked, calls,
                   floatVars, loadVars, engineVars>>

\* lines 1216-1235; Enter on an index without a suggestion throws at line
\* 1229 and changes nothing
KeyDown ==
    /\ \E key \in Keys :
          IF Len(currentSuggestions) = 0
          THEN UNCHANGED <<rows, picked, qValue, currentSuggestions,
                           selectedIndex>>
          ELSE CASE key = "ArrowDown" ->
                        /\ selectedIndex' =
                               arrowDown(selectedIndex, Len(currentSuggestions))
                        /\ UNCHANGED <<rows, picked, qValue,
                                       currentSuggestions>>
                 [] key = "ArrowUp" ->
                        /\ selectedIndex' = arrowUp(selectedIndex)
                        /\ UNCHANGED <<rows, picked, qValue,
                                       currentSuggestions>>
                 [] key = "Enter" ->
                        IF selectedIndex \in 0..(Len(currentSuggestions) - 1)
                        THEN pick(currentSuggestions[selectedIndex + 1].w)
                        ELSE UNCHANGED <<rows, picked, qValue,
                                         currentSuggestions, selectedIndex>>
                 [] key = "Escape" ->
                        /\ currentSuggestions' = <<>>
                        /\ selectedIndex' = -1
                        /\ UNCHANGED <<rows, picked, qValue>>
                 [] OTHER ->
                        UNCHANGED <<rows, picked, qValue, currentSuggestions,
                                    selectedIndex>>
    /\ UNCHANGED <<pc, entries, didInitialSeed, tries, limitArg, suggestions,
                   calls, floatVars, loadVars, engineVars>>

\* lines 1237-1241
SearchButtonClick ==
    /\ IF trim(qValue) = <<>>
       THEN UNCHANGED <<rows, picked, qValue, currentSuggestions,
                        selectedIndex>>
       ELSE \E list \in {computeSuggestions(EntryList(entries), qValue,
                                             SuggestionLimit)} :
                IF Len(list) # 0 /\ list[1].w \in byWordKeys
                THEN /\ rows' = addRowToTop(rows, list[1].w, byWordKeys)
                     /\ picked' = list[1].w
                     /\ qValue' = <<>>
                     /\ currentSuggestions' = <<>>
                     /\ selectedIndex' = -1
                ELSE /\ currentSuggestions' = list
                     /\ selectedIndex' = IF Len(list) # 0 THEN 0 ELSE -1
                     /\ UNCHANGED <<rows, picked, qValue>>
    /\ UNCHANGED <<pc, entries, didInitialSeed, tries, limitArg, suggestions,
                   calls, floatVars, loadVars, engineVars>>

\* lines 1243-1246; with no verb loaded entries[0] is undefined and line
\* 1245 throws
RandomButtonClick ==
    /\ \E r \in cryptoRandomInt(Len(entries)) :
          IF Len(entries) = 0
          THEN UNCHANGED <<rows, picked, qValue, currentSuggestions,
                           selectedIndex>>
          ELSE pick(entries[r + 1])
    /\ UNCHANGED <<pc, entries, didInitialSeed, tries, limitArg, suggestions,
                   calls, floatVars, loadVars, engineVars>>

\* lines 1261-1268: the elements shown are those renderSuggestions built
\* from currentSuggestions, data-idx 0 to length - 1
SuggestionClick ==
    /\ \E idx \in 0..(Len(currentSuggestions) - 1) :
          pick(currentSuggestions[idx + 1].w)
    /\ UNCHANGED <<pc, entries, didInitialSeed, tries, limitArg, suggestions,
                   calls, floatVars, loadVars, engineVars>>

\* lines 1270-1275: a click outside the search box and the suggestions
OutsideClick ==
    /\ currentSuggestions' = <<>>
    /\ selectedIndex' = -1
    /\ UNCHANGED <<pc, uiVars, qValue, limitArg, suggestions, picked, calls,
                   floatVars, loadVars, engineVars>>

NextSearch ==
    \/ AddEntry
    \/ InputEvent
    \/ KeyDown
    \/ SearchButtonClick
    \/ RandomButtonClick
    \/ SuggestionClick
    \/ OutsideClick

SpecSearch == InitSearch /\ [][NextSearch]_vars

-----------------------------------------------------------------------------
(* The floating search bar, app.js 946-1025 and 1255-1259: setFloating     *)
(* under updateFloating and the back-to-top button, with the callbacks it  *)
(* leaves to requestAnimationFrame and to setTimeout.                      *)

SHOW_AT == 6

HIDE_AT == 40

\* the variables setFloating reads and writes, as one record
FloatingNow ==
    [floatingState |-> floatingState,
     floatingOffTimer |-> floatingOffTimer,
     classList |-> classList,
     frames |-> frames,
     timers |-> timers,
     lastTimer |-> lastTimer]

\* lines 978-981: window.clearTimeout(floatingOffTimer), then null
ClearOffTimer(st) ==
    IF st.floatingOffTimer # 0
    THEN [st EXCEPT !.timers = @ \ {st.floatingOffTimer},
                    !.floatingOffTimer = 0]
    ELSE st

\* lines 973-997 on the search bar; the button texts of lines 999-1009 are
\* left out
setFloating(st, on) ==
    IF on = st.floatingState THEN st
    ELSE IF on
    THEN IF "floating" \notin st.classList
         THEN [ClearOffTimer(st) EXCEPT
                   !.floatingState = TRUE,
                   !.classList = @ \cup {"floating"},
                   !.frames = @ + 1]
         ELSE [ClearOffTimer(st) EXCEPT
                   !.floatingState = TRUE,
                   !.classList = @ \cup {"show"}]
    ELSE IF "floating" \notin st.classList
         THEN [st EXCEPT !.floatingState = FALSE]
         ELSE [st EXCEPT
                   !.floatingState = FALSE,
                   !.classList = @ \ {"show"},
                   !.floatingOffTimer = st.lastTimer + 1,
                   !.timers = @ \cup {st.lastTimer + 1},
                   !.lastTimer = @ + 1]

\* the state setFloating leaves, within the bounds of the model
FloatingBecomes(st) ==
    /\ st.frames <= MaxFrames
    /\ st.lastTimer <= MaxTimers
    /\ floatingState' = st.floatingState
    /\ floatingOffTimer' = st.floatingOffTimer
    /\ classList' = st.classList
    /\ frames' = st.frames
    /\ timers' = st.timers
    /\ lastTimer' = st.lastTimer

\* window.scrollY on either side of line 1015, and the top of the legend
\* on either side of SHOW_AT and of HIDE_AT
ScrollYs == {4, 5}

LegendTops == {SHOW_AT, SHOW_AT + 1, HIDE_AT, HIDE_AT + 1}

InitFloat ==
    /\ pc = "main"
    /\ NoUi
    /\ NoPage
    /\ NoUnion
    /\ NoMark
    /\ actual = <<>> /\ expected = <<>> /\ em = NoEditMask
    /\ expectedVariants = <<>> /\ best = NoBest
    /\ sharedPrefix = <<>> /\ stem = <<>> /\ colored = <<>>
    /\ NoCell
    /\ NoRow

\* lines 1012-1022: the call of line 1025 and the listeners of scroll and
\* resize
UpdateFloating ==
    /\ \E scrollY \in ScrollYs, top \in LegendTops :
          IF floatingLocked
          THEN /\ floatingLocked' = ~(scrollY <= 4)
               /\ FloatingBecomes(setFloating(FloatingNow, FALSE))
          ELSE /\ floatingLocked' = floatingLocked
               /\ IF ~floatingState
                  THEN FloatingBecomes(setFloating(FloatingNow,
                                                   top <= SHOW_AT))
                  ELSE FloatingBecomes(setFloating(FloatingNow,
                                                   ~(top > HIDE_AT)))
    /\ UNCHANGED <<pc, uiVars, searchVars, loadVars, engineVars>>

\* lines 1255-1259
ToTopClick ==
    /\ floatingLocked' = TRUE
    /\ FloatingBecomes(setFloating(FloatingNow, FALSE))
    /\ UNCHANGED <<pc, uiVars, searchVars, loadVars, engineVars>>

\* line 985: one callback of requestAnimationFrame runs
AnimationFrame ==
    /\ frames > 0
    /\ frames' = frames - 1
    /\ classList' = classList \cup {"show"}
    /\ UNCHANGED <<pc, uiVars, searchVars, loadVars, engineVars,
                   floatingState, floatingLocked, floatingOffTimer, timers,
                   lastTimer>>

\* lines 993-996: a timer fires after its 240 ms
TimerFires ==
    /\ \E id \in timers :
          timers' = timers \ {id}
    /\ classList' = classList \ {"floating"}
    /\ UNCHANGED <<pc, uiVars, searchVars, loadVars, engineVars,
                   floatingState, floatingLocked, floatingOffTimer, frames,
                   lastTimer>>

NextFloat ==
    \/ UpdateFloating
    \/ ToTopClick
    \/ AnimationFrame
    \/ TimerFires

SpecFloat == InitFloat /\ [][NextFloat]_vars

-----------------------------------------------------------------------------
(* loadAllChunks, app.js 1120-1164, with addEntry (876-891) and the calls  *)
(* of seedInitialRows and maybeAddRandomRow it makes after each chunk.     *)

TARGET_TOTAL_ROWS == 10

\* line 1130; the 50 of the code is above TARGET_TOTAL_ROWS
plannedAdds ==
    MathMax(0, MathMin(TARGET_TOTAL_ROWS, 50) - INITIAL_TOTAL_ROWS)

\* lines 1131-1136, for a manifest of n chunks
addSchedule(n) ==
    IF plannedAdds > 0 /\ n > 0
    THEN {(i * n) \div (plannedAdds + 1) : i \in 1..plannedAdds}
    ELSE {}

\* lines 876-891 on entries and loadedCount, for the verb of infinitive w
addEntry(st, w) ==
    IF w = "" \/ w \in {st.entries[k] : k \in 1..Len(st.entries)}
    THEN st
    ELSE [entries |-> Append(st.entries, w),
          loadedCount |-> st.loadedCount + 1]

\* line 1144
RECURSIVE addEntries(_, _)
addEntries(st, ws) ==
    IF ws = <<>> THEN st
    ELSE addEntries(addEntry(st, Head(ws)), Tail(ws))

\* lines 1077-1087: the tables maybeAddRandomRow can leave; a draw counts
\* when its word is not shown, and all the draws can fall on shown words
\* when the pool has one
maybeAddRandomRow(rws, sourceWords, es, known) ==
    LET pool == IF Len(sourceWords) > 0 THEN sourceWords ELSE es
        usable(w) == w # "" /\ w \notin shownWords(rws) /\ w \in known
        drawn == {pool[k] : k \in 1..Len(pool)}
    IN  {addRowToBottom(rws, w, known) : w \in {x \in drawn : usable(x)}}
            \cup (IF \A x \in drawn : usable(x) THEN {} ELSE {rws})

\* the files of the data, in manifest order: one with the eight first
\* verbs, avoir and faire among them, one with a verb the first has and a
\* new one, and one with a new verb
ChunkA == SubSeq(WordList, 1, 8)

ChunkB == <<"aimer", "lire">>

ChunkC == <<"boire">>

Files == <<ChunkA, ChunkB, ChunkC>>

\* the manifests: the first n files
Manifests == {SubSeq(Files, 1, n) : n \in 0..MathMin(MaxChunks, Len(Files))}

InitLoad ==
    /\ pc = "loadAllChunks.for"
    /\ chunks \in Manifests
    /\ chunkIndex = 0
    /\ verbs = <<>>
    /\ loadedCount = 0
    /\ statusText = [kind |-> "progress", count |-> 0]
    /\ attempted = <<>>
    /\ NoUi
    /\ NoSearch
    /\ NoFloat
    /\ NoUnion
    /\ NoMark
    /\ actual = <<>> /\ expected = <<>> /\ em = NoEditMask
    /\ expectedVariants = <<>> /\ best = NoBest
    /\ sharedPrefix = <<>> /\ stem = <<>> /\ colored = <<>>
    /\ NoCell
    /\ NoRow

\* lines 1139-1148: loadChunk gave the file; its verbs are added, the
\* status shows the count, and seedInitialRows is called
LoadChunkDone ==
    /\ pc = "loadAllChunks.for"
    /\ chunkIndex < Len(chunks)
    /\ attempted' = Append(attempted, chunkIndex)
    /\ LET ws == chunks[chunkIndex + 1]
           st == addEntries([entries |-> entries,
                             loadedCount |-> loadedCount], ws)
       IN  /\ verbs' = ws
           /\ entries' = st.entries
           /\ loadedCount' = st.loadedCount
           /\ statusText' = [kind |-> "progress", count |-> st.loadedCount]
    /\ pc' = "seedInitialRows"
    /\ UNCHANGED <<rows, didInitialSeed, tries, chunks, chunkIndex,
                   searchVars, floatVars, engineVars>>

\* lines 1120-1127 and 1155-1157: loadChunk threw (no DecompressionStream,
\* a failed fetch, a bad gzip stream or bad JSON); the catch logs it
LoadChunkFails ==
    /\ pc = "loadAllChunks.for"
    /\ chunkIndex < Len(chunks)
    /\ attempted' = Append(attempted, chunkIndex)
    /\ pc' = "idleTick"
    /\ UNCHANGED <<uiVars, chunks, chunkIndex, verbs, loadedCount,
                   statusText, searchVars, floatVars, engineVars>>

\* line 1091: seedInitialRows returns at once after its first call
SeedAlreadyDone ==
    /\ pc = "seedInitialRows"
    /\ didInitialSeed
    /\ pc' = "seedInitialRows.return"
    /\ UNCHANGED <<uiVars, pageVars, engineVars>>

\* lines 1149-1154: the row of the schedule, after seedInitialRows
ScheduledRow ==
    /\ pc = "seedInitialRows.return"
    /\ IF /\ didInitialSeed
          /\ chunkIndex \in addSchedule(Len(chunks))
          /\ Cardinality(shownWords(rows)) < TARGET_TOTAL_ROWS
       THEN rows' \in maybeAddRandomRow(rows, verbs, entries, byWordKeys)
       ELSE rows' = rows
    /\ pc' = "idleTick"
    /\ UNCHANGED <<entries, didInitialSeed, tries, pageVars, engineVars>>

\* lines 1158 and 1139: idleTick resolves, chunkIndex++
IdleTick ==
    /\ pc = "idleTick"
    /\ chunkIndex' = chunkIndex + 1
    /\ pc' = "loadAllChunks.for"
    /\ UNCHANGED <<uiVars, chunks, verbs, loadedCount, statusText,
                   attempted, searchVars, floatVars, engineVars>>

\* lines 1139 and 1160: the loop ends and the status shows the count
LoadAllChunksEnds ==
    /\ pc = "loadAllChunks.for"
    /\ ~(chunkIndex < Len(chunks))
    /\ statusText' = [kind |-> "final", count |-> loadedCount]
    /\ pc' = "loadAllChunks.return"
    /\ UNCHANGED <<uiVars, chunks, chunkIndex, verbs, loadedCount,
                   attempted, searchVars, floatVars, engineVars>>

NextLoad ==
    \/ LoadChunkDone
    \/ LoadChunkFails
    \/ SeedAlreadyDone
    \/ SeedFixedRows
    \/ SeedWhile
    \/ TryRandomWord
    \/ GiveUpRandomWord
    \/ ScheduledRow
    \/ IdleTick
    \/ LoadAllChunksEnds

SpecLoad == InitLoad /\ [][NextLoad]_vars

\* every await of loadAllChunks settles (fetch resolves or rejects, the
\* idle callback has a timeout of 120 ms), the code between two awaits
\* runs to its end, and the draws are as under SpecSeedFair
SpecLoadFair ==
    SpecLoad /\ WF_vars(NextLoad) /\ SF_vars(DrawUnshownWord)

-----------------------------------------------------------------------------
(* Claims about editMask, checked under SpecEdit. *)

Min3(x, y, z) ==
    IF x <= y /\ x <= z THEN x ELSE IF y <= z THEN y ELSE z

\* the Levenshtein distance by its defining recursion on the first
\* characters: delete, insert, or substitute at cost 0 for equal characters
RECURSIVE Levenshtein(_, _)
Levenshtein(s, t) ==
    IF s = <<>> THEN Len(t)
    ELSE IF t = <<>> THEN Len(s)
    ELSE Min3(Levenshtein(Tail(s), t) + 1,
              Levenshtein(s, Tail(t)) + 1,
              Levenshtein(Tail(s), Tail(t))
                  + (IF Head(s) = Head(t) THEN 0 ELSE 1))

AllFalse(mask) == \A k \in DOMAIN mask : mask[k] = FALSE

\* C1: for all strings attested and expected, the empty string included,
\* the score of editMask(attested, expected) is the Levenshtein distance
\* between expected and attested (unit costs, 0 for an equal character).
C1_ScoreIsLevenshtein ==
    pc = "editMask.return" => em.score = Levenshtein(expected, actual)

C1_Witness ==
    /\ pc = "editMask.return"
    /\ Len(actual) = 3 /\ Len(expected) = 2
    /\ em.score = 2

\* C2: the score is 0 exactly when attested equals expected, and a score
\* of 0 comes with a mask whose entries are all false.
C2_ZeroIffEqual ==
    pc = "editMask.return" =>
        /\ (em.score = 0 <=> actual = expected)
        /\ (em.score = 0 => AllFalse(em.mask))

C2_Witness ==
    /\ pc = "editMask.return"
    /\ Len(actual) = 3 /\ actual = expected
    /\ em.score = 0 /\ AllFalse(em.mask)

\* C3: the mask has exactly attested.length boolean entries, also when a
\* string is empty, and the backtrace loop ends at cell (0,0) without a
\* write outside the indices 0..attested.length-1.
C3_MaskLengthAndBacktrace ==
    pc = "editMask.return" =>
        /\ em.mask \in [1..Len(actual) -> BOOLEAN]
        /\ em.i = 0 /\ em.j = 0
        /\ ~em.oob

C3_Witness ==
    /\ pc = "editMask.return"
    /\ actual # <<>> /\ expected = <<>>
    /\ Len(em.mask) = Len(actual) /\ em.i = 0 /\ em.j = 0

-----------------------------------------------------------------------------
(* Claims about bestExpectedMask, checked under SpecBest. *)

ScoreOf(k) == editMask(actual, expectedVariants[k]).score

MinScore ==
    CHOOSE x \in {ScoreOf(k) : k \in DOMAIN expectedVariants} :
        \A k \in DOMAIN expectedVariants : x <= ScoreOf(k)

FirstMin ==
    CHOOSE k \in DOMAIN expectedVariants :
        /\ ScoreOf(k) = MinScore
        /\ \A h \in 1..(k - 1) : ScoreOf(h) # MinScore

\* C5: for a non-empty variant list the mask returned is the mask of
\* editMask against the first variant, in list order, whose score is the
\* minimum over the list; a later variant of equal score does not replace
\* it, and no variant after the first one of score 0 is scanned.
C5_FirstMinimumWins ==
    (pc = "bestExpectedMask.return" /\ Len(expectedVariants) > 0) =>
        /\ ~best.null
        /\ best.mask = editMask(actual, expectedVariants[FirstMin]).mask
        /\ best.scanned =
               (IF MinScore = 0 THEN FirstMin ELSE Len(expectedVariants))

\* the second variant ties with the first one and has another mask
C5_Witness ==
    /\ pc = "bestExpectedMask.return"
    /\ Len(expectedVariants) = 2
    /\ FirstMin = 1 /\ MinScore > 0
    /\ ScoreOf(2) = MinScore
    /\ editMask(actual, expectedVariants[2]).mask # best.mask
    /\ best.mask = editMask(actual, expectedVariants[1]).mask
    /\ best.scanned = 2

-----------------------------------------------------------------------------
(* Claims about colorizeForm, checked under SpecColor. *)

\* index i (1-based) lies in the run, contiguous from the first character,
\* on which the form and the shared prefix agree up to case
PrefixCovers(form, prefix, i) ==
    /\ i <= Len(prefix)
    /\ \A h \in 1..i :
          /\ h <= Len(form)
          /\ toLowerCaseChar(form[h]) = toLowerCaseChar(prefix[h])

StemMarked(i) ==
    \/ markStemLetters(actual, stem)[i]
    \/ PrefixCovers(actual, sharedPrefix, i)

NoIrregular == \A i \in DOMAIN colored : colored[i] \in {"black", "normal"}

\* C6: with an empty variant list bestExpectedMask returns null, and
\* colorizeForm called with that absent mask classifies every character
\* as stem or normal, none as irregular.
C6_EmptyVariantsNoHighlight ==
    /\ (pc \in {"bestExpectedMask.return", "colorizeForm.return"}
          /\ Len(expectedVariants) = 0) => best.null
    /\ (pc = "colorizeForm.return" /\ Len(expectedVariants) = 0) =>
          (Len(colored) = Len(actual) /\ NoIrregular)

C6_Witness ==
    /\ pc = "colorizeForm.return"
    /\ Len(expectedVariants) = 0 /\ best.null
    /\ Len(actual) = 3
    /\ \E i \in DOMAIN colored : colored[i] = "normal"

\* C8: stem has priority over irregularity.  An index marked by the
\* linguistic-stem scan or by the shared-prefix match is stem whatever the
\* deviation mask holds there; an index marked by neither is irregular
\* exactly when the deviation mask is true there, and normal otherwise.
C8_StemPriority ==
    pc = "colorizeForm.return" =>
        /\ Len(colored) = Len(actual)
        /\ \A i \in 1..Len(actual) :
              IF StemMarked(i) THEN colored[i] = "black"
              ELSE IF ~best.null /\ best.mask[i] THEN colored[i] = "hi"
              ELSE colored[i] = "normal"

\* a flagged character under a stem mark, a flagged one outside, and a
\* plain one
C8_Witness ==
    /\ pc = "colorizeForm.return"
    /\ ~best.null
    /\ \E i \in DOMAIN colored :
          best.mask[i] /\ StemMarked(i) /\ colored[i] = "black"
    /\ \E i \in DOMAIN colored : colored[i] = "hi"
    /\ \E i \in DOMAIN colored : colored[i] = "normal"

-----------------------------------------------------------------------------
(* Claims about the variant generator, checked under SpecRegular. *)

VariantsReturned ==
    pc \in {"bestExpectedMask", "bestExpectedMask.return",
            "colorizeForm.return"}

\* C4: round trip.  For every infinitive, tense, person and auxiliary
\* stems, and every x among the expected regular variants, the mask chosen
\* by bestExpectedMask(x, variants) has len(x) entries, all false.
C4_RegularFormRoundTrip ==
    (pc = "bestExpectedMask.return" /\ actual \in Range(expectedVariants)) =>
        /\ ~best.null
        /\ Len(best.mask) = Len(actual)
        /\ AllFalse(best.mask)

\* the form is a later variant, reached after a variant of another score
C4_Witness ==
    /\ pc = "bestExpectedMask.return"
    /\ Len(expectedVariants) >= 3
    /\ actual = expectedVariants[3]
    /\ best.scanned = 3
    /\ AllFalse(best.mask) /\ Len(best.mask) = Len(actual)

\* C7 as stated: for an infinitive of group other the variant set is empty
\* for present and passe_simple, and non-empty for imparfait and futur.
C7_OtherGroupEmptyVariants ==
    (VariantsReturned /\ inf # <<>> /\ verbGroup(inf) = "other") =>
        /\ tenseKey \in {"present", "passe_simple"} => expectedVariants = <<>>
        /\ tenseKey \in {"imparfait", "futur"} => expectedVariants # <<>>

\* C7 as the code has it: for a non-empty infinitive of group other and
\* every person, the variant list for present and passe_simple is the
\* infinitive itself and nothing else (the stem is the whole infinitive and
\* the ending is empty), and the list for imparfait and futur is non-empty.
C7_OtherGroupInfinitiveOnly ==
    (VariantsReturned /\ inf # <<>> /\ verbGroup(inf) = "other") =>
        /\ tenseKey \in {"present", "passe_simple"} =>
              expectedVariants = <<inf>>
        /\ tenseKey \in {"imparfait", "futur"} => expectedVariants # <<>>

C7_Witness ==
    /\ pc = "bestExpectedMask"
    /\ inf = <<"h", "a", "ï", "r">>
    /\ tenseKey = "passe_simple"
    /\ personIndex = 5
    /\ expectedVariants = <<inf>>

\* C9: the form made of the linguistic stem and the regular table ending
\* of the infinitive's group, tense and person, classified with the mask
\* bestExpectedMask chooses against the expected regular variants (with or
\* without an imparfait stem) and with any shared prefix, has only stem
\* and normal characters.
C9_StemPlusEndingNeverIrregular ==
    (pc = "colorizeForm.return"
        /\ actual = linguisticStem(inf)
                        \o regularEnding(inf, tenseKey, personIndex)) =>
        (Len(colored) = Len(actual) /\ NoIrregular)

\* an imparfait stem that differs from the linguistic stem: the mask flags
\* letters, all of them under the stem marks
C9_Witness ==
    /\ pc = "colorizeForm.return"
    /\ tenseKey = "imparfait"
    /\ stems.imparfaitStem = <<"b", "u", "v">>
    /\ actual = linguisticStem(inf)
                    \o regularEnding(inf, tenseKey, personIndex)
    /\ ~best.null
    /\ \E i \in DOMAIN best.mask : best.mask[i]
    /\ \E i \in DOMAIN colored : colored[i] = "normal"
    /\ NoIrregular

-----------------------------------------------------------------------------
(* Claims about the shared prefix of a cell, checked under SpecRow. *)

CellReturned ==
    pc \in {"buildTenseCell.return", "buildParticiplesCell.return"}

\* the forms the shared-prefix computation of the cell is given
FormsGiven ==
    IF cellKey = "part"
    THEN FilterNonEmpty(<<v.part.pres, v.part.past>>)
    ELSE v.t[cellKey]

AllNonEmpty(forms) == \A k \in DOMAIN forms : forms[k] # <<>>

-----------------------------------------------------------------------------
(* Claims about the forms of a tense cell, checked under SpecRow. *)

\* C11 as stated: a tense cell with between one and five attested forms
\* only loses the shared prefix; every attested form that is present is
\* still given a row with its deviation mask and its classification.
C11_ShortCellStillAnalysed ==
    (pc = "buildTenseCell.return" /\ Len(FormsGiven) \in 1..5) =>
        /\ cell.rendered
        /\ cell.shared = <<>>
        /\ \A k \in 1..Len(FormsGiven) :
              FormsGiven[k] # <<>> =>
                  /\ k \in DOMAIN cell.rows
                  /\ cell.rows[k].form = FormsGiven[k]
                  /\ Len(cell.rows[k].colored) = Len(FormsGiven[k])

\* C11 as the code has it: a tense cell with between one and five attested
\* forms is empty, none of its forms gets a row, a mask or a
\* classification; with six forms or more each of the first six forms gets
\* a row with a mask and a classification of its length.
C11_ShortCellEmpty ==
    pc = "buildTenseCell.return" =>
        /\ Len(FormsGiven) \in 1..5 =>
              (~cell.rendered /\ cell.rows = <<>>)
        /\ Len(FormsGiven) >= 6 =>
              /\ cell.rendered
              /\ DOMAIN cell.rows = 1..6
              /\ \A k \in 1..6 :
                    /\ cell.rows[k].form = FormsGiven[k]
                    /\ ~cell.rows[k].null
                    /\ Len(cell.rows[k].mask) = Len(FormsGiven[k])
                    /\ Len(cell.rows[k].colored) = Len(FormsGiven[k])

\* three imparfait forms, all present, and no row
C11_Witness ==
    /\ pc = "buildTenseCell.return"
    /\ cellKey = "imp"
    /\ Len(FormsGiven) = 3
    /\ AllNonEmpty(FormsGiven)
    /\ ~cell.rendered /\ cell.rows = <<>>

-----------------------------------------------------------------------------
(* Claims about applyBlackUnionRules, checked under SpecUnion. *)

\* p is a prefix of form up to case
IsPrefixIgnoringCase(p, form) ==
    /\ Len(p) <= Len(form)
    /\ \A i \in 1..Len(p) : toLowerCaseChar(p[i]) = toLowerCaseChar(form[i])

\* no string longer than n letters is a prefix up to case of every form:
\* a form ends after n letters, or two forms disagree at letter n + 1
NoLongerPrefix(list, n) ==
    \/ \E k \in DOMAIN list : Len(list[k]) <= n
    \/ \E k, h \in DOMAIN list :
          toLowerCaseChar(list[k][n + 1]) # toLowerCaseChar(list[h][n + 1])

\* C12: applyBlackUnionRules(forms) returns the longest string that is a
\* case-insensitive prefix of every form of the list: parl for parle,
\* parles, parle, parlons, parlez, parlent; the empty string when two forms
\* differ at index 0 or a form is empty; never longer than the shortest
\* form.
C12_LongestCommonPrefix ==
    (pc = "applyBlackUnionRules.return" /\ unionForms # <<>>) =>
        /\ \A k \in DOMAIN unionForms :
              /\ IsPrefixIgnoringCase(unionShared, unionForms[k])
              /\ Len(unionShared) <= Len(unionForms[k])
        /\ NoLongerPrefix(unionForms, Len(unionShared))
        /\ (\E k \in DOMAIN unionForms : unionForms[k] = <<>>) =>
              unionShared = <<>>
        /\ (\E k, h \in DOMAIN unionForms :
               /\ unionForms[k] # <<>> /\ unionForms[h] # <<>>
               /\ toLowerCaseChar(unionForms[k][1])
                      # toLowerCaseChar(unionForms[h][1])) =>
              unionShared = <<>>
        /\ unionForms = ParleForms => unionShared = <<"p", "a", "r", "l">>

\* the present of parler with a capital letter in a later form
C12_Witness ==
    /\ pc = "applyBlackUnionRules.return"
    /\ Len(unionForms) = 6
    /\ unionForms[1] = ParleForms[1]
    /\ unionForms[4] = Capitalize(ParleForms[4])
    /\ unionShared = <<"p", "a", "r", "l">>

-----------------------------------------------------------------------------
(* Claims about the spelling rules, checked under SpecRegular. *)

Manger == <<"m", "a", "n", "g", "e", "r">>
Mangeons == <<"m", "a", "n", "g", "e", "o", "n", "s">>
Mangons == <<"m", "a", "n", "g", "o", "n", "s">>

\* C13: for manger, present, person 3 (nous), the expected regular variants
\* contain mangeons; against the attested mangeons the plain variant
\* mangons scores more than 0 and mangeons is the only variant of score 0,
\* so the mask selected is all false.
C13_MangeonsOnlyExactVariant ==
    (VariantsReturned /\ inf = Manger /\ tenseKey = "present"
        /\ personIndex = 3) =>
        /\ Mangeons \in Range(expectedVariants)
        /\ Mangons \in Range(expectedVariants)
        /\ editMask(Mangeons, Mangons).score > 0
        /\ \A k \in DOMAIN expectedVariants :
              editMask(Mangeons, expectedVariants[k]).score = 0 =>
                  expectedVariants[k] = Mangeons
        /\ (pc = "bestExpectedMask.return" /\ actual = Mangeons) =>
              /\ ~best.null
              /\ Len(best.mask) = 8
              /\ AllFalse(best.mask)

\* mangeons is reached as the second variant, after mangons
C13_Witness ==
    /\ pc = "bestExpectedMask.return"
    /\ inf = Manger /\ tenseKey = "present" /\ personIndex = 3
    /\ actual = Mangeons
    /\ expectedVariants = <<Mangons, Mangeons>>
    /\ best.scanned = 2
    /\ AllFalse(best.mask)

-----------------------------------------------------------------------------
(* Claims about the stem rules, checked under SpecSpelling. *)

Appeler == <<"a", "p", "p", "e", "l", "e", "r">>
Acheter == <<"a", "c", "h", "e", "t", "e", "r">>

\* the infinitive without its last two letters
InfStem == DropLast(inf, 2)

\* s with its last plain e written è (s has one)
GraveLastE(s) ==
    LET i == CHOOSE i \in DOMAIN s :
                 s[i] = "e" /\ \A h \in (i + 1)..Len(s) : s[h] # "e"
    IN  [s EXCEPT ![i] = "è"]

\* s with its final consonant written twice
DoubledLast(s) == s \o <<s[Len(s)]>>

\* C14: for every infinitive in -eler (resp. -eter), present and every
\* silent-e person, the expected regular variants contain the grave-accent
\* spelling (the stem with its last e written è, plus the ending) and the
\* doubled-consonant spelling (the stem with ll, resp. tt, plus the
\* ending); for appeler, person 0, they contain appèle and appelle and the
\* attested appelle scores 0; for acheter, person 0, the attested achète
\* scores 0.
C14_ElerEterBothSpellings ==
    (VariantsReturned /\ tenseKey = "present" /\ personIndex \in {0, 1, 2, 5}
        /\ (endsWith(inf, <<"e", "l", "e", "r">>)
               \/ endsWith(inf, <<"e", "t", "e", "r">>))) =>
        LET end == PresentEr[personIndex + 1] IN
        /\ (GraveLastE(InfStem) \o end) \in Range(expectedVariants)
        /\ (DoubledLast(InfStem) \o end) \in Range(expectedVariants)
        /\ (inf = Appeler /\ personIndex = 0) =>
              /\ <<"a", "p", "p", "è", "l", "e">> \in Range(expectedVariants)
              /\ <<"a", "p", "p", "e", "l", "l", "e">>
                     \in Range(expectedVariants)
        /\ (pc = "bestExpectedMask.return" /\ personIndex = 0
               /\ \/ inf = Appeler
                        /\ actual = <<"a", "p", "p", "e", "l", "l", "e">>
                  \/ inf = Acheter
                        /\ actual = <<"a", "c", "h", "è", "t", "e">>) =>
              /\ ~best.null
              /\ AllFalse(best.mask)
              /\ editMask(actual, expectedVariants[best.scanned]).score = 0

\* appelle is reached as the third variant
C14_Witness ==
    /\ pc = "bestExpectedMask.return"
    /\ inf = Appeler /\ tenseKey = "present" /\ personIndex = 0
    /\ actual = <<"a", "p", "p", "e", "l", "l", "e">>
    /\ best.scanned >= 3
    /\ AllFalse(best.mask)

\* the regular ending begins with a, â or o
SoftEnding ==
    LET end == regularEnding(inf, tenseKey, personIndex) IN
    end # <<>> /\ end[1] \in {"a", "â", "o"}

\* the base form is the infinitive stem plus the regular ending
BaseIsStemPlusEnding ==
    expectedBaseForm(inf, tenseKey, personIndex, stems)
        = InfStem \o regularEnding(inf, tenseKey, personIndex)

\* C15: for every infinitive in -cer (resp. -ger) and every tense and
\* person whose regular ending begins with a, â or o and whose base form is
\* the infinitive stem plus that ending, the expected regular variants
\* contain the spelling in which the stem-final c (resp. g) is written ç
\* (resp. ge) and every other letter of the base form is unchanged
\* (commencer, nous: commençons; gager, nous: gageons).
C15_SoftenedStemFinalOnly ==
    (VariantsReturned /\ SoftEnding /\ BaseIsStemPlusEnding) =>
        LET end == regularEnding(inf, tenseKey, personIndex) IN
        /\ endsWith(inf, <<"c", "e", "r">>) =>
              (DropLast(InfStem, 1) \o <<"ç">> \o end)
                  \in Range(expectedVariants)
        /\ endsWith(inf, <<"g", "e", "r">>) =>
              (InfStem \o <<"e">> \o end) \in Range(expectedVariants)

\* s with its final y written i
FinalYToI(s) == DropLast(s, 1) \o <<"i">>

\* C16: in the present at the silent-e persons, for an infinitive in -ayer
\* the variants contain the y-spelling and the i-spelling of the form; for
\* an infinitive in -oyer or -uyer they contain the i-spelling and not the
\* y-spelling.  At persons 3 and 4 and in every other tense no y to i
\* variant is produced.
C16_YToIMandatoryOrOptional ==
    (VariantsReturned
        /\ (endsWith(inf, <<"a", "y", "e", "r">>)
               \/ endsWith(inf, <<"o", "y", "e", "r">>)
               \/ endsWith(inf, <<"u", "y", "e", "r">>))) =>
        LET end == regularEnding(inf, tenseKey, personIndex)
            ySpelling == InfStem \o end
            iSpelling == FinalYToI(InfStem) \o end
        IN
        IF tenseKey = "present" /\ personIndex \in {0, 1, 2, 5}
        THEN IF endsWith(inf, <<"a", "y", "e", "r">>)
             THEN /\ ySpelling \in Range(expectedVariants)
                  /\ iSpelling \in Range(expectedVariants)
             ELSE /\ iSpelling \in Range(expectedVariants)
                  /\ ySpelling \notin Range(expectedVariants)
        ELSE \A k \in DOMAIN expectedVariants :
                 ~endsWith(expectedVariants[k], <<"i">> \o end)
                     \/ endsWith(InfStem, <<"i">>)

-----------------------------------------------------------------------------
(* Claims about the alignment behind the mask, checked under SpecEdit. *)

\* the path of the backtrace of the call under study
PathTaken ==
    BacktracePath(dpTable(actual, expected), Len(expected), Len(actual))

StepsOf(path, ops) == {k \in DOMAIN path : path[k].op \in ops}

TrueCount(mask) == Cardinality({k \in DOMAIN mask : mask[k]})

\* the letters of s at the positions where the mask is false
RECURSIVE UnmarkedLetters(_, _, _)
UnmarkedLetters(s, mask, k) ==
    IF k > Len(s) THEN <<>>
    ELSE (IF mask[k] THEN <<>> ELSE <<s[k]>>)
             \o UnmarkedLetters(s, mask, k + 1)

\* s can be read in t, left to right, at strictly increasing positions
RECURSIVE IsSubsequence(_, _)
IsSubsequence(s, t) ==
    IF s = <<>> THEN TRUE
    ELSE IF t = <<>> THEN FALSE
    ELSE IF Head(s) = Head(t) THEN IsSubsequence(Tail(s), Tail(t))
    ELSE IsSubsequence(s, Tail(t))

\* C17: the mask is the attested-side projection of one optimal alignment.
\* The characters of attested where the mask is false, read left to right,
\* are matched to equal characters of expected at strictly increasing
\* positions; every position taken by a substitution or an insertion is
\* true; the number of true positions is the score minus the number of
\* deletions, so at most the score.
C17_MaskProjectsOptimalAlignment ==
    pc = "editMask.return" =>
        LET path == PathTaken
            eqs  == StepsOf(path, {"eq"})
            marks == StepsOf(path, {"rep", "ins"})
            dels == StepsOf(path, {"del"})
        IN
        /\ \A k \in eqs :
              /\ ~em.mask[path[k].j]
              /\ actual[path[k].j] = expected[path[k].i]
        /\ \A k, h \in eqs :
              k < h => (path[h].i < path[k].i /\ path[h].j < path[k].j)
        /\ \A k \in marks : em.mask[path[k].j]
        /\ \A j \in 1..Len(actual) :
              Cardinality({k \in eqs \cup marks : path[k].j = j}) = 1
        /\ IsSubsequence(UnmarkedLetters(actual, em.mask, 1), expected)
        /\ Cardinality(marks) + Cardinality(dels) = em.score
        /\ em.score = Levenshtein(expected, actual)
        /\ TrueCount(em.mask) = em.score - Cardinality(dels)
        /\ TrueCount(em.mask) <= em.score

\* a match, a substitution and a deletion: one true position, score 2
C17_Witness ==
    /\ pc = "editMask.return"
    /\ expected = <<"a", "b", "c">>
    /\ actual = <<"c", "c">>
    /\ em.score = 2
    /\ em.mask = <<TRUE, FALSE>>
    /\ Cardinality(StepsOf(PathTaken, {"del"})) = 1

\* C18: at every cell of the table where more than one operation attains
\* the minimum cost the operation recorded is match/substitution if it
\* attains the minimum, otherwise insertion, otherwise deletion; the
\* backtrace starts at (len(expected), len(attested)) and follows the
\* operations recorded, so editMask('ab', 'ba') marks both characters.
C18_TieBreakOrder ==
    pc = "editMask.return" =>
        LET t == dpTable(actual, expected)
            path == PathTaken
        IN
        /\ \A i \in 1..Len(expected), j \in 1..Len(actual) :
              LET cost == IF expected[i] = actual[j] THEN 0 ELSE 1
                  rep == Cell(t, i - 1, j - 1).dp + cost
                  ins == Cell(t, i, j - 1).dp + 1
                  del == Cell(t, i - 1, j).dp + 1
                  least == Min3(rep, ins, del)
              IN  /\ Cell(t, i, j).dp = least
                  /\ Cell(t, i, j).bt =
                         (IF rep = least
                          THEN (IF cost = 0 THEN "eq" ELSE "rep")
                          ELSE IF ins = least THEN "ins" ELSE "del")
        /\ (Len(expected) > 0 \/ Len(actual) > 0) =>
              (path[1].i = Len(expected) /\ path[1].j = Len(actual))
        /\ \A k \in DOMAIN path :
              LET ni == IF path[k].op = "ins" THEN path[k].i
                        ELSE path[k].i - 1
                  nj == IF path[k].op = "del" THEN path[k].j
                        ELSE path[k].j - 1
              IN  /\ path[k].op = Cell(t, path[k].i, path[k].j).bt
                  /\ IF k < Len(path)
                     THEN path[k + 1].i = ni /\ path[k + 1].j = nj
                     ELSE ni = 0 /\ nj = 0
        /\ em.mask = [j \in 1..Len(actual) |->
                         \E k \in StepsOf(path, {"rep", "ins"}) :
                             path[k].j = j]
        /\ (actual = <<"a", "b">> /\ expected = <<"b", "a">>) =>
              em.mask = <<TRUE, TRUE>>

\* ab against ba: the three operations tie at the last cell
C18_Witness ==
    /\ pc = "editMask.return"
    /\ actual = <<"a", "b">> /\ expected = <<"b", "a">>
    /\ Cell(dpTable(actual, expected), 2, 2).bt = "rep"
    /\ em.score = 2
    /\ em.mask = <<TRUE, TRUE>>

-----------------------------------------------------------------------------
(* Claims about markStemLetters, checked under SpecMark. *)

\* the index (1-based) the k-th stem letter marks: the first one after the
\* index marked before it whose character equals it up to case; -1 once a
\* stem letter has found none; 0 stands for the start of the form
RECURSIVE MarkOf(_, _, _)
MarkOf(form, st, k) ==
    IF k = 0 THEN 0
    ELSE LET prev == MarkOf(form, st, k - 1) IN
         IF prev = -1 THEN -1
         ELSE LET hits == {i \in DOMAIN form :
                              /\ i > prev
                              /\ toLowerCaseChar(form[i])
                                     = toLowerCaseChar(st[k])}
              IN  IF hits = {} THEN -1
                  ELSE CHOOSE i \in hits : \A h \in hits : i <= h

\* C19: markStemLetters(form, stem) marks a strictly increasing sequence
\* of indices of form: the k-th stem letter marks the first index after
\* the index marked before it whose character equals it case-insensitively;
\* the scan stops at the first stem letter without such an occurrence, so
\* later stem letters mark nothing, and at most len(stem) indices are
\* marked.
C19_GreedyStemScan ==
    pc = "markStemLetters.return" =>
        /\ DOMAIN stemMarks = 1..Len(actual)
        /\ \A i \in 1..Len(actual) :
              stemMarks[i] <=>
                  \E k \in 1..Len(stem) : MarkOf(actual, stem, k) = i
        /\ \A k, h \in 1..Len(stem) :
              (k < h /\ MarkOf(actual, stem, h) # -1) =>
                  /\ MarkOf(actual, stem, k) # -1
                  /\ MarkOf(actual, stem, k) < MarkOf(actual, stem, h)
        /\ TrueCount(stemMarks) <= Len(stem)

\* the first stem letter has no occurrence and the second one has: nothing
\* is marked
C19_Witness ==
    /\ pc = "markStemLetters.return"
    /\ stem = <<"c", "B">>
    /\ actual = <<"A", "b", "b">>
    /\ stemMarks = <<FALSE, FALSE, FALSE>>

-----------------------------------------------------------------------------
(* Claims about the rows of the page, checked under SpecSeedFair. *)

\* C20: seedInitialRows always terminates: for any non-empty set of loaded
\* entries, a set with fewer than INITIAL_TOTAL_ROWS distinct verbs
\* included, the loop that adds random rows until 8 rows are shown ends
\* after finitely many iterations, whatever cryptoRandomInt returns.
C20_SeedTerminates == <>(pc = "seedInitialRows.return")

-----------------------------------------------------------------------------
(* Claims about computeSuggestions, checked under SpecSuggest. *)

\* C21: computeSuggestions returns at most limit suggestions for every
\* limit of at least 1, and no verb twice.
C21_AtMostLimitNoRepeat ==
    pc = "computeSuggestions.return" =>
        /\ Len(suggestions) <= limitArg
        /\ \A i, j \in 1..Len(suggestions) :
               suggestions[i].w = suggestions[j].w => i = j

-----------------------------------------------------------------------------
(* Claims about the rows table, checked under SpecRows. *)

\* C22: after any sequence of addRowToTop and addRowToBottom calls the
\* table holds at most one row per verb and at most MAX_ROWS rows, and
\* directly after addRowToTop(word) for a loaded word that word's row is
\* the first row.
C22_RowsUniqueCappedTopFirst ==
    /\ \A i, j \in 1..Len(rows) : rows[i] = rows[j] => i = j
    /\ Len(rows) <= MAX_ROWS
    /\ (pc = "addRowToTop.return" /\ picked \in byWordKeys) =>
           (rows # <<>> /\ rows[1] = picked)

\* a verb beyond the full table was put on top, and the last row left
C22_Witness ==
    /\ pc = "addRowToTop.return"
    /\ picked = Word(MAX_ROWS + 1)
    /\ Len(rows) = MAX_ROWS
    /\ rows[1] = Word(MAX_ROWS + 1)
    /\ Word(MAX_ROWS) \notin shownWords(rows)

-----------------------------------------------------------------------------
(* Claims about the search box, checked under SpecSearch. *)

\* C23: after any sequence of search-box events selectedIndex is -1 exactly
\* when currentSuggestions is empty, and otherwise it is the index of one
\* of the suggestions, the one Enter picks.
C23_SelectedIndexInRange ==
    /\ selectedIndex = -1 <=> Len(currentSuggestions) = 0
    /\ Len(currentSuggestions) # 0 =>
           /\ 0 <= selectedIndex
           /\ selectedIndex < Len(currentSuggestions)

\* ArrowDown has reached the last of several suggestions, after an earlier
\* pick put a row in the table
C23_Witness ==
    /\ Len(currentSuggestions) >= 2
    /\ selectedIndex = Len(currentSuggestions) - 1
    /\ Len(rows) >= 1

-----------------------------------------------------------------------------
(* Claims about the floating search bar, checked under SpecFloat. *)

\* C24: once no callback of requestAnimationFrame and no 240 ms timer is
\* pending, the search bar has both classes floating and show when
\* floatingState is true and neither of them when floatingState is false.
C24_ClassesFollowState ==
    (frames = 0 /\ timers = {}) =>
        IF floatingState
        THEN {"floating", "show"} \subseteq classList
        ELSE classList \cap {"floating", "show"} = {}

-----------------------------------------------------------------------------
(* Claims about loadAllChunks, checked under SpecLoadFair. *)

\* C25: loadAllChunks attempts every chunk of the manifest once, in
\* manifest order, whether a chunk fails or not; loadedCount is the number
\* of distinct verbs loaded; and after the last chunk the status
\* eventually shows the final loaded count.
C25_AllChunksAttemptedThenFinalCount ==
    <>(/\ pc = "loadAllChunks.return"
       /\ attempted = [k \in 1..Len(chunks) |-> k - 1]
       /\ loadedCount = Cardinality(byWordKeys)
       /\ statusText = [kind |-> "final", count |-> loadedCount])

====
